---- MODULE Spec2Model ----
(***************************************************************************)
(* Model of the interactive selection engine of pnpm-upgrade-interactive:  *)
(* the StateManager (cursor, scroll window, selection cycling, bulk        *)
(* operations, detail modal), the InputHandler / ConfirmationInputHandler  *)
(* key dispatch, the orchestrating session of InteractiveUI and the        *)
(* selection / confirmation loop of PnpmUpgradeInteractive.run.            *)
(*                                                                         *)
(* The repository holds two generations of the session: the monolithic     *)
(* one (src/src/interactive-ui.ts, no modal) and the modular one           *)
(* (StateManager + InputHandler + InteractiveUI with the detail modal).    *)
(* The variable impl says which one a behaviour runs.                      *)
(*                                                                         *)
(* Indices (currentRow, scrollOffset, visual indices) are 0-based as in    *)
(* the source; TLA+ sequences are 1-based, hence the "+ 1" on access.      *)
(***************************************************************************)
EXTENDS Integers, Sequences, FiniteSets, TLC

\* ------------------------------------------------------------------ bounds

\* Largest number of package rows of a session of the full run (Spec).
MaxRows == 2
\* Largest number of package rows of a navigation run (SpecNav).
MaxNavRows == 7
\* Largest number of package rows of a list grouped into sections whose
\* packages are not contiguous in the state list (SpecNav).
MaxGroupedRows == 4
\* Largest number of metadata fetches in flight at once.
MaxFetches == 2
\* Largest number of dependency entries in the manifests of a workspace
\* (SpecUpgrade).
MaxEntries == 2

\* Largest number of versions a registry publishes for a package (SpecRange).
MaxVersions == 3

\* ------------------------------------------------------- program constants

\* StateManager.headerLines of the modular session.
headerLines == 7
\* headerLines of the monolithic session.
legacyHeaderLines == 4
\* Lines reserved for the footer in the capacity computation.
footerLines == 2
\* Smallest viewport capacity.
minVisibleItems == 5
\* getTerminalHeight's fallback when stdout is no terminal.
defaultTerminalHeight == 24

Max(a, b) == IF a >= b THEN a ELSE b
Min(a, b) == IF a <= b THEN a ELSE b

Options == {"none", "range", "latest"}
Directions == {"left", "right"}

\* ------------------------------------------------------------ VersionUtils

\* The specifier package.json gives a package unless a run draws another.
CaretSpecifier == "^4.1.0"

\* Specifiers of package.json: caret, tilde, exact, comparator, wildcard.
Specifiers == {CaretSpecifier, "~4.1.0", "4.1.0", ">=4.1.0", "*"}

\* The characters of a specifier, in order.
Characters(s) ==
    CASE s = "^4.1.0" -> <<"^", "4", ".", "1", ".", "0">>
      [] s = "~4.1.0" -> <<"~", "4", ".", "1", ".", "0">>
      [] s = "4.1.0" -> <<"4", ".", "1", ".", "0">>
      [] s = ">=4.1.0" -> <<">", "=", "4", ".", "1", ".", "0">>
      [] s = "*" -> <<"*">>

\* The characters \d matches.
Digits == {"0", "1", "2", "3", "4", "5", "6", "7", "8", "9"}

\* Length of the match of /^([^\d]+)/ on the characters, 0 without a match.
RECURSIVE PrefixLength(_)
PrefixLength(cs) ==
    IF Len(cs) = 0 \/ Head(cs) \in Digits THEN 0
    ELSE 1 + PrefixLength(Tail(cs))

\* The string made of the characters.
RECURSIVE Join(_)
Join(cs) == IF Len(cs) = 0 THEN "" ELSE Head(cs) \o Join(Tail(cs))

\* applyVersionPrefix that keeps the first character of the specifier only.
applyVersionPrefixFirstChar(originalSpecifier, targetVersion) ==
    LET cs == Characters(originalSpecifier)
    IN  (IF Len(cs) > 0 /\ Head(cs) \notin Digits THEN Head(cs) ELSE "")
            \o targetVersion

\* prefix + targetVersion, prefix the match of /^([^\d]+)/ or ''.
applyVersionPrefix(originalSpecifier, targetVersion) ==
    LET cs == Characters(originalSpecifier)
    IN  Join(SubSeq(cs, 1, PrefixLength(cs))) \o targetVersion

\* ------------------------------------------------------------------ semver

\* A parsed version.
SemVer(major, minor, patch) ==
    [major |-> major, minor |-> minor, patch |-> patch]

\* The versions the model can read out of a string.
SemVers == [major : {0, 4, 5}, minor : 0..2, patch : {0, 5}]

\* The decimal text of a version part.
DigitString(n) ==
    CASE n = 0 -> "0" [] n = 1 -> "1" [] n = 2 -> "2"
      [] n = 3 -> "3" [] n = 4 -> "4" [] n = 5 -> "5"

\* SemVer.version: the text major.minor.patch.
Format(v) ==
    DigitString(v.major) \o "." \o DigitString(v.minor) \o "."
        \o DigitString(v.patch)

\* The operators a specifier of the model starts with; none for an exact one.
RangeOperators == {"^", "~", ">=", ""}

\* Every reading of a text as an operator followed by a version.
ReadingUniverse == [operator : RangeOperators, version : SemVers]

\* The texts the model can read.
ReadableTexts == {r.operator \o Format(r.version) : r \in ReadingUniverse}

\* The reading of every readable text, as an explicit table (the merge with
\* the empty function leaves the function as it is).
ReadingOf ==
    <<>> @@ [s \in ReadableTexts |->
        CHOOSE r \in ReadingUniverse : r.operator \o Format(r.version) = s]

\* The readings of a specifier as an operator followed by a version.
Readings(s) == IF s \in ReadableTexts THEN {ReadingOf[s]} ELSE {}

\* semver.coerce: the version found in the string, as a sequence that is
\* empty where coerce returns null.
coerce(s) ==
    IF Readings(s) = {} THEN <<>>
    ELSE <<(CHOOSE r \in Readings(s) : TRUE).version>>

\* semver.gt on parsed versions.
gt(a, b) ==
    \/ a.major > b.major
    \/ a.major = b.major /\ a.minor > b.minor
    \/ a.major = b.major /\ a.minor = b.minor /\ a.patch > b.patch

\* semver.satisfies(version, range) for a range of one comparator: exact,
\* >=, tilde (same major and minor) and caret (same leftmost non-zero part).
satisfies(version, range) ==
    /\ Readings(range) # {}
    /\ LET r == CHOOSE r \in Readings(range) : TRUE
           b == r.version
           gte == version = b \/ gt(version, b)
       IN  CASE r.operator = "" -> version = b
             [] r.operator = ">=" -> gte
             [] r.operator = "~" ->
                    gte /\ version.major = b.major /\ version.minor = b.minor
             [] r.operator = "^" ->
                    /\ gte
                    /\ IF b.major > 0 THEN version.major = b.major
                       ELSE IF b.minor > 0
                            THEN version.major = 0 /\ version.minor = b.minor
                            ELSE version = b

\* The first loop of findClosestMinorVersion: the version kept after the
\* versions are visited in order, a version of the installed major replacing
\* the one kept when its minor is above the installed minor and above the
\* minor kept.
RECURSIVE bestMinorVersion(_, _, _, _, _)
bestMinorVersion(versions, installedMajor, installedMinor, bestMinorValue, best) ==
    IF Len(versions) = 0 THEN best
    ELSE LET version == Head(versions)
         IN  IF /\ version.major = installedMajor
                /\ version.minor > installedMinor
                /\ version.minor > bestMinorValue
             THEN bestMinorVersion(Tail(versions), installedMajor,
                                   installedMinor, version.minor,
                                   <<version>>)
             ELSE bestMinorVersion(Tail(versions), installedMajor,
                                   installedMinor, bestMinorValue, best)

\* The second loop of findClosestMinorVersion: the greatest version that
\* satisfies the installed range and is above the coerced installed version.
RECURSIVE bestVersion(_, _, _, _)
bestVersion(versions, installedVersion, coercedInstalled, best) ==
    IF Len(versions) = 0 THEN best
    ELSE LET version == Head(versions)
         IN  IF /\ satisfies(version, installedVersion)
                /\ gt(version, coercedInstalled)
                /\ (Len(best) = 0 \/ gt(version, best[1]))
             THEN bestVersion(Tail(versions), installedVersion,
                              coercedInstalled, <<version>>)
             ELSE bestVersion(Tail(versions), installedVersion,
                              coercedInstalled, best)

\* findClosestMinorVersion: the version of the first loop, otherwise the one
\* of the second; empty where the function returns null.
findClosestMinorVersion(installedVersion, allVersions) ==
    IF Len(coerce(installedVersion)) = 0 THEN <<>>
    ELSE LET coercedInstalled == coerce(installedVersion)[1]
             minor == bestMinorVersion(allVersions, coercedInstalled.major,
                                       coercedInstalled.minor, -1, <<>>)
         IN  IF Len(minor) > 0 THEN minor
             ELSE bestVersion(allVersions, installedVersion,
                              coercedInstalled, <<>>)

\* ------------------------------------------------------------ StateManager

\* Item of the renderable list: header, spacer, or package with the index of
\* its row in the state list.
HeaderItem == [type |-> "header"]
SpacerItem == [type |-> "spacer"]
PackageItem(i) == [type |-> "package", originalIndex |-> i]

IsPackage(item) == item.type = "package"

\* Math.max(5, terminalHeight - headerLines - 2)
Capacity(height, chrome) == Max(minVisibleItems, height - chrome - footerLines)

\* Visual indices (0-based) of the package items holding packageIndex.
VisualMatches(items, packageIndex) ==
    {i \in 0..(Len(items) - 1) :
        /\ IsPackage(items[i + 1])
        /\ items[i + 1].originalIndex = packageIndex}

SetMin(S) == CHOOSE x \in S : \A y \in S : x <= y

packageIndexToVisualIndex(items, packageIndex) ==
    IF Len(items) = 0 THEN packageIndex
    ELSE IF VisualMatches(items, packageIndex) # {}
         THEN SetMin(VisualMatches(items, packageIndex))
         ELSE 0

\* The package indices of the renderable list, in list order.
RECURSIVE PackageItemsOf(_)
PackageItemsOf(items) ==
    IF Len(items) = 0 THEN <<>>
    ELSE IF IsPackage(Head(items))
         THEN <<Head(items).originalIndex>> \o PackageItemsOf(Tail(items))
         ELSE PackageItemsOf(Tail(items))

\* findIndex: 0-based position of the first element equal to x, or -1.
FindIndex(seq, x) ==
    IF \E i \in 1..Len(seq) : seq[i] = x
    THEN SetMin({i \in 1..Len(seq) : seq[i] = x}) - 1
    ELSE -1

\* findNextPackageIndex that stops at the ends of the list.
findNextPackageIndexNoWrap(items, currentPackageIndex, direction, totalPackages) ==
    LET packageItems == IF Len(items) = 0
                        THEN [i \in 1..totalPackages |-> i - 1]
                        ELSE PackageItemsOf(items)
        currentPos == FindIndex(packageItems, currentPackageIndex)
        newPos == IF direction = "up" THEN Max(0, currentPos - 1)
                  ELSE Min(Len(packageItems) - 1, currentPos + 1)
    IN  packageItems[newPos + 1]

\* findNextPackageIndex by index arithmetic, whatever the renderable list.
findNextPackageIndexFlat(items, currentPackageIndex, direction, totalPackages) ==
    IF direction = "up"
    THEN IF currentPackageIndex <= 0 THEN totalPackages - 1
         ELSE currentPackageIndex - 1
    ELSE IF currentPackageIndex >= totalPackages - 1 THEN 0
         ELSE currentPackageIndex + 1

findNextPackageIndex(items, currentPackageIndex, direction, totalPackages) ==
    IF Len(items) = 0
    THEN IF direction = "up"
         THEN IF currentPackageIndex <= 0 THEN totalPackages - 1
              ELSE currentPackageIndex - 1
         ELSE IF currentPackageIndex >= totalPackages - 1 THEN 0
              ELSE currentPackageIndex + 1
    ELSE LET packageItems == PackageItemsOf(items)
             currentPos == FindIndex(packageItems, currentPackageIndex)
         IN  IF Len(packageItems) = 0 THEN currentPackageIndex
             ELSE IF currentPos = -1 THEN packageItems[1]
             ELSE IF direction = "up"
                  THEN LET newPos == IF currentPos <= 0 THEN Len(packageItems) - 1
                                     ELSE currentPos - 1
                       IN  packageItems[newPos + 1]
                  ELSE LET newPos == IF currentPos >= Len(packageItems) - 1 THEN 0
                                     ELSE currentPos + 1
                       IN  packageItems[newPos + 1]

\* renderableItems[i]?.type, "undefined" outside the list.
TypeAt(items, i) ==
    IF i >= 0 /\ i < Len(items) THEN items[i + 1].type ELSE "undefined"

\* TargetVisualIndex that never looks for a header.
TargetVisualIndexSelf(items, visualIndex) == visualIndex

\* The index ensureVisible scrolls to when it scrolls up: the section header
\* above the package when the package is the first of its section.
TargetVisualIndex(items, visualIndex) ==
    IF visualIndex > 0
    THEN IF TypeAt(items, visualIndex - 1) = "header" THEN visualIndex - 1
         ELSE IF /\ visualIndex > 1
                 /\ TypeAt(items, visualIndex - 1) = "spacer"
                 /\ TypeAt(items, visualIndex - 2) = "header"
              THEN Max(0, visualIndex - 2)
              ELSE visualIndex
    ELSE visualIndex

\* ClampScroll without the upper bound.
ClampScrollLowerOnly(offset, totalVisualItems, capacity) == Max(0, offset)

\* Math.max(0, Math.min(offset, Math.max(0, total - capacity)))
ClampScroll(offset, totalVisualItems, capacity) ==
    Max(0, Min(offset, Max(0, totalVisualItems - capacity)))

\* ensureVisible without the scroll-down branch.
ensureVisibleUpOnly(items, scrollOffset, maxVisibleItems, packageIndex, totalPackages) ==
    LET visualIndex == packageIndexToVisualIndex(items, packageIndex)
        totalVisualItems == IF Len(items) # 0 THEN Len(items) ELSE totalPackages
        targetVisualIndex == TargetVisualIndex(items, visualIndex)
        moved == IF targetVisualIndex < scrollOffset THEN targetVisualIndex
                 ELSE scrollOffset
    IN  ClampScroll(moved, totalVisualItems, maxVisibleItems)

\* The scroll offset ensureVisible leaves, from the offset and capacity before.
ensureVisible(items, scrollOffset, maxVisibleItems, packageIndex, totalPackages) ==
    LET visualIndex == packageIndexToVisualIndex(items, packageIndex)
        totalVisualItems == IF Len(items) # 0 THEN Len(items) ELSE totalPackages
        targetVisualIndex == TargetVisualIndex(items, visualIndex)
        rangeSize == visualIndex - targetVisualIndex + 1
        moved == IF targetVisualIndex < scrollOffset THEN targetVisualIndex
                 ELSE IF visualIndex >= scrollOffset + maxVisibleItems
                      THEN IF rangeSize <= maxVisibleItems THEN targetVisualIndex
                           ELSE visualIndex - maxVisibleItems + 1
                      ELSE scrollOffset
    IN  ClampScroll(moved, totalVisualItems, maxVisibleItems)

\* ensureVisible of the monolithic session (flat list only).
legacyEnsureVisible(scrollOffset, maxVisibleItems, rowIndex, totalItems) ==
    LET moved == IF rowIndex < scrollOffset THEN rowIndex
                 ELSE IF rowIndex >= scrollOffset + maxVisibleItems
                      THEN rowIndex - maxVisibleItems + 1
                      ELSE scrollOffset
    IN  ClampScroll(moved, totalItems, maxVisibleItems)

\* CycleOption without the availability checks: cycles through all three
\* options whatever the row's flags.
CycleOptionUnchecked(state, direction) ==
    IF direction = "left"
    THEN CASE state.selectedOption = "latest" -> "range"
           [] state.selectedOption = "range" -> "none"
           [] state.selectedOption = "none" -> "latest"
    ELSE CASE state.selectedOption = "none" -> "range"
           [] state.selectedOption = "range" -> "latest"
           [] state.selectedOption = "latest" -> "none"

\* CycleOption whose left cycle wraps from none to range first, like the
\* right cycle.
CycleOptionLeftWrapsToRange(state, direction) ==
    IF direction = "left"
    THEN CASE state.selectedOption = "latest" ->
                IF state.hasRangeUpdate THEN "range" ELSE "none"
           [] state.selectedOption = "range" -> "none"
           [] state.selectedOption = "none" ->
                IF state.hasRangeUpdate THEN "range"
                ELSE IF state.hasMajorUpdate THEN "latest"
                ELSE "none"
    ELSE CASE state.selectedOption = "none" ->
                IF state.hasRangeUpdate THEN "range"
                ELSE IF state.hasMajorUpdate THEN "latest"
                ELSE "none"
           [] state.selectedOption = "range" ->
                IF state.hasMajorUpdate THEN "latest" ELSE "none"
           [] state.selectedOption = "latest" -> "none"

\* CycleOption whose right cycle stops at latest instead of wrapping.
CycleOptionRightSticks(state, direction) ==
    IF direction = "left"
    THEN CASE state.selectedOption = "latest" ->
                IF state.hasRangeUpdate THEN "range" ELSE "none"
           [] state.selectedOption = "range" -> "none"
           [] state.selectedOption = "none" ->
                IF state.hasMajorUpdate THEN "latest"
                ELSE IF state.hasRangeUpdate THEN "range"
                ELSE "none"
    ELSE CASE state.selectedOption = "none" ->
                IF state.hasRangeUpdate THEN "range"
                ELSE IF state.hasMajorUpdate THEN "latest"
                ELSE "none"
           [] state.selectedOption = "range" ->
                IF state.hasMajorUpdate THEN "latest" ELSE "none"
           [] state.selectedOption = "latest" -> "latest"

\* The selectedOption updateSelection leaves on a row.
CycleOption(state, direction) ==
    IF direction = "left"
    THEN CASE state.selectedOption = "latest" ->
                IF state.hasRangeUpdate THEN "range" ELSE "none"
           [] state.selectedOption = "range" -> "none"
           [] state.selectedOption = "none" ->
                IF state.hasMajorUpdate THEN "latest"
                ELSE IF state.hasRangeUpdate THEN "range"
                ELSE "none"
    ELSE CASE state.selectedOption = "none" ->
                IF state.hasRangeUpdate THEN "range"
                ELSE IF state.hasMajorUpdate THEN "latest"
                ELSE "none"
           [] state.selectedOption = "range" ->
                IF state.hasMajorUpdate THEN "latest" ELSE "none"
           [] state.selectedOption = "latest" -> "none"

\* updateSelection that cycles every row instead of the cursor row.
updateSelectionAllRows(sts, row, direction) ==
    [i \in 1..Len(sts) |->
        [sts[i] EXCEPT !.selectedOption = CycleOption(sts[i], direction)]]

updateSelection(sts, row, direction) ==
    [sts EXCEPT ![row + 1].selectedOption = CycleOption(sts[row + 1], direction)]

\* bulkSelectMinor that unselects the rows without a range update.
bulkSelectMinorResetsOthers(sts) ==
    [i \in 1..Len(sts) |->
        [sts[i] EXCEPT !.selectedOption =
            IF sts[i].hasRangeUpdate THEN "range" ELSE "none"]]

bulkSelectMinor(sts) ==
    [i \in 1..Len(sts) |->
        IF sts[i].hasRangeUpdate THEN [sts[i] EXCEPT !.selectedOption = "range"]
        ELSE sts[i]]

\* bulkSelectLatest that puts every row on latest.
bulkSelectLatestUnchecked(sts) ==
    [i \in 1..Len(sts) |-> [sts[i] EXCEPT !.selectedOption = "latest"]]

\* bulkSelectLatest that leaves the rows already selected as they are.
bulkSelectLatestKeepsSelected(sts) ==
    [i \in 1..Len(sts) |->
        IF sts[i].selectedOption # "none" THEN sts[i]
        ELSE IF sts[i].hasMajorUpdate THEN [sts[i] EXCEPT !.selectedOption = "latest"]
        ELSE IF sts[i].hasRangeUpdate THEN [sts[i] EXCEPT !.selectedOption = "range"]
        ELSE sts[i]]

bulkSelectLatest(sts) ==
    [i \in 1..Len(sts) |->
        IF sts[i].hasMajorUpdate THEN [sts[i] EXCEPT !.selectedOption = "latest"]
        ELSE IF sts[i].hasRangeUpdate THEN [sts[i] EXCEPT !.selectedOption = "range"]
        ELSE sts[i]]

\* bulkUnselectAll that also withdraws the updates of every row.
bulkUnselectAllClearsFlags(sts) ==
    [i \in 1..Len(sts) |->
        [sts[i] EXCEPT !.selectedOption = "none",
                       !.hasRangeUpdate = FALSE,
                       !.hasMajorUpdate = FALSE]]

bulkUnselectAll(sts) ==
    [i \in 1..Len(sts) |-> [sts[i] EXCEPT !.selectedOption = "none"]]

\* ---------------------------------------------------------------- renderer

\* The dot of a slot: filled when the slot's option is the selected one.
Dot(isSelected) == IF isSelected THEN "filled" ELSE "hollow"

\* renderPackageLine whose current slot is filled whatever is selected.
renderPackageLineCurrentFilled(state, index, isCurrentRow) ==
    [type |-> "package",
     row |-> index,
     cursor |-> isCurrentRow,
     currentDot |-> "filled",
     currentVersion |-> state.currentVersionSpecifier,
     rangeDot |-> IF state.hasRangeUpdate
                  THEN Dot(state.selectedOption = "range") ELSE "blank",
     rangeVersionText |->
        IF state.hasRangeUpdate
        THEN applyVersionPrefix(state.currentVersionSpecifier, state.rangeVersion)
        ELSE "",
     latestDot |-> IF state.hasMajorUpdate
                   THEN Dot(state.selectedOption = "latest") ELSE "blank",
     latestVersionText |->
        IF state.hasMajorUpdate
        THEN applyVersionPrefix(state.currentVersionSpecifier, state.latestVersion)
        ELSE ""]

\* The line of a package row, by what its three slots show: the current
\* slot always has a dot and the specifier; the range and latest slots have
\* a dot and the prefixed version when the row has that update and are
\* blank otherwise.
renderPackageLine(state, index, isCurrentRow) ==
    [type |-> "package",
     row |-> index,
     cursor |-> isCurrentRow,
     currentDot |-> Dot(state.selectedOption = "none"),
     currentVersion |-> state.currentVersionSpecifier,
     rangeDot |-> IF state.hasRangeUpdate
                  THEN Dot(state.selectedOption = "range") ELSE "blank",
     rangeVersionText |->
        IF state.hasRangeUpdate
        THEN applyVersionPrefix(state.currentVersionSpecifier, state.rangeVersion)
        ELSE "",
     latestDot |-> IF state.hasMajorUpdate
                   THEN Dot(state.selectedOption = "latest") ELSE "blank",
     latestVersionText |->
        IF state.hasMajorUpdate
        THEN applyVersionPrefix(state.currentVersionSpecifier, state.latestVersion)
        ELSE ""]

\* The item lines of the list frame (below the header and the status line):
\* the window of the renderable items of a sectioned list, or of the rows
\* of a flat one.
renderListLines(sts, currentRow, scrollOffset, maxVisibleItems, items) ==
    IF Len(items) > 0
    THEN [k \in 1..Max(0, Min(scrollOffset + maxVisibleItems, Len(items))
                             - scrollOffset) |->
            LET item == items[scrollOffset + k]
            IN  IF item.type = "package"
                THEN renderPackageLine(sts[item.originalIndex + 1],
                                       item.originalIndex,
                                       item.originalIndex = currentRow)
                ELSE [type |-> item.type]]
    ELSE [k \in 1..Max(0, Min(scrollOffset + maxVisibleItems, Len(sts))
                             - scrollOffset) |->
            renderPackageLine(sts[scrollOffset + k], scrollOffset + k - 1,
                              scrollOffset + k - 1 = currentRow)]

\* ------------------------------------------------------------------- state

VARIABLES
    impl,               \* "legacy" (interactive-ui.ts) or "modular" session
    phase,              \* where PnpmUpgradeInteractive.run stands
    states,             \* the rows of the current session (PackageSelectionState[])
    uiState,            \* StateManager.uiState
    rawMode,            \* process.stdin raw mode flag
    flowing,            \* process.stdin resumed (TRUE) or paused (FALSE)
    listeners,          \* 'keypress' listeners of process.stdin, in order
    fetches,            \* metadata fetches in flight:
                        \* <<[row, stale, forOpenModal], ...>>, stale when
                        \* an earlier session started the fetch
    selected,           \* value the session promise resolved with
    resolvedBy,         \* "pending", "confirm" or "cancel"
    resolveCalls,       \* calls of the session promise's resolve
    selectedChoices,    \* run's selectedChoices, while the loop can read it
    shouldProceed,      \* value of the confirmation prompt, "pending" before
    lastKey,            \* the event handled last
    manifests,          \* the dependency entries of the package.json files
    options,            \* the command line flags (PnpmUpgradeOptions)
    frame               \* how the event handled last painted: "clear"
                        \* (console.clear), "home" (cursor home), "none"

vars == <<impl, phase, states, uiState, rawMode, flowing, listeners,
          fetches, selected, resolvedBy, resolveCalls,
          selectedChoices, shouldProceed, lastKey, manifests, options,
          frame>>

Impls == {"legacy", "modular"}

\* Keys the confirmation prompt reacts to.
PromptKeys == {"y", "return", "n", "escape"}

\* The versions of the packages of a run: the registry offers 4.2.0 within
\* the range and 5.0.0 as latest.
RangeVersion == "4.2.0"
LatestVersion == "5.0.0"

\* The package.json files of a workspace, in the order
\* findAllPackageJsonFiles lists them.
RootManifest == "package.json"
ManifestPaths == <<RootManifest, "packages/app/package.json">>

\* A row as the session's seeding builds it: the package's name (packages
\* are numbered in list order), its specifier as written in package.json,
\* the bare versions on offer, the flags, the seeded option.
NewRow(name, specifier, hasRange, hasMajor, option) ==
    [name |-> name,
     packageJsonPaths |-> <<RootManifest>>,
     currentVersionSpecifier |-> specifier,
     rangeVersion |-> RangeVersion,
     latestVersion |-> LatestVersion,
     hasRangeUpdate |-> hasRange, hasMajorUpdate |-> hasMajor,
     selectedOption |-> option, metadata |-> "undefined"]

\* ----------------------------------------------- detection and row building

\* The flags of a run without -p and -o.
DefaultOptions == [includePeerDeps |-> FALSE, includeOptionalDeps |-> FALSE]

\* The dependency kinds collectAllDependencies reads from a manifest, in its
\* order: depTypes, with the optional and peer kinds pushed on request.
depTypes(opts) ==
    <<"dependencies", "devDependencies">>
        \o (IF opts.includeOptionalDeps THEN <<"optionalDependencies">>
            ELSE <<>>)
        \o (IF opts.includePeerDeps THEN <<"peerDependencies">> ELSE <<>>)

\* The members of a sequence as a set.
Range(q) == {q[k] : k \in 1..Len(q)}

\* The position of a member in a sequence without repetitions.
IndexIn(q, x) == CHOOSE k \in 1..Len(q) : q[k] = x

\* The members of a set of records in increasing order of a rank that tells
\* them apart.
OrderedBy(S, rank) ==
    [j \in 1..Cardinality(S) |->
        CHOOSE e \in S : Cardinality({d \in S : rank[d] < rank[e]}) = j - 1]

\* collectAllDependencies: the entries of every manifest, manifest by
\* manifest, kind by kind in the order of depTypes, the entries of one kind
\* in the order of the file (names are numbered in that order).
collectAllDependencies(files, opts) ==
    LET kinds == depTypes(opts)
        deps == {e \in files : e.type \in Range(kinds)}
        rank == [e \in deps |->
                    (IndexIn(ManifestPaths, e.packageJsonPath) * 10
                        + IndexIn(kinds, e.type)) * 10 + e.name]
    IN  OrderedBy(deps, rank)

\* PackageDetector.isWorkspaceReference, on the specifier forms of the model.
isWorkspaceReference(version) == version = "*"

\* The versions the registry publishes for every package of a run that does
\* not draw them, greatest first as getAllPackageData sorts them.
RegistryVersions == <<SemVer(5, 0, 0), SemVer(4, 2, 0), SemVer(4, 1, 0)>>

\* getOutdatedPackages: a PackageInfo per collected entry that is no
\* workspace reference, in the order collected, with the range target
\* findClosestMinorVersion finds among the published versions (the specifier
\* itself without one), the latest version, and the flags.
getOutdatedPackages(files, opts, allVersions) ==
    LET allDeps == SelectSeq(collectAllDependencies(files, opts),
                             LAMBDA dep : ~isWorkspaceReference(dep.version))
        info(dep) ==
            LET closestMinorVersion ==
                    findClosestMinorVersion(dep.version, allVersions)
                installedClean == coerce(dep.version)[1]
                latestClean == Head(allVersions)
                hasRangeUpdate == /\ Len(closestMinorVersion) > 0
                                  /\ closestMinorVersion[1] # installedClean
                hasMajorUpdate == latestClean.major > installedClean.major
            IN  [name |-> dep.name,
                 currentVersion |-> dep.version,
                 rangeVersion |-> IF Len(closestMinorVersion) > 0
                                  THEN Format(closestMinorVersion[1])
                                  ELSE dep.version,
                 latestVersion |-> Format(latestClean),
                 type |-> dep.type,
                 packageJsonPath |-> dep.packageJsonPath,
                 isOutdated |-> hasRangeUpdate \/ hasMajorUpdate,
                 hasRangeUpdate |-> hasRangeUpdate,
                 hasMajorUpdate |-> hasMajorUpdate]
    IN  [k \in 1..Len(allDeps) |-> info(allDeps[k])]

\* The packages getOutdatedPackages returns to a run whose registry publishes
\* RegistryVersions.
Packages == getOutdatedPackages(manifests, options, RegistryVersions)

\* The kind filter of selectPackagesToUpgrade: with -p or -o only the
\* requested kinds, otherwise dependencies and devDependencies.
filteredPackages(packages, opts) ==
    LET outdatedPackages == SelectSeq(packages, LAMBDA p : p.isOutdated)
    IN  IF opts.includePeerDeps \/ opts.includeOptionalDeps
        THEN SelectSeq(outdatedPackages, LAMBDA pkg :
                 \/ opts.includePeerDeps /\ pkg.type = "peerDependencies"
                 \/ opts.includeOptionalDeps
                        /\ pkg.type = "optionalDependencies")
        ELSE SelectSeq(outdatedPackages, LAMBDA pkg :
                 pkg.type \in {"dependencies", "devDependencies"})

\* The deduplication that keeps every package.json of a pair apart.
RECURSIVE uniquePackagesPerPath(_, _)
uniquePackagesPerPath(pkgs, unique) ==
    IF Len(pkgs) = 0 THEN unique
    ELSE LET pkg == Head(pkgs)
         IN  uniquePackagesPerPath(
                 Tail(pkgs),
                 Append(unique,
                        [pkg |-> pkg,
                         packageJsonPaths |-> <<pkg.packageJsonPath>>,
                         type |-> pkg.type]))

\* The deduplication of selectPackagesToUpgrade: the Map keyed by
\* `${pkg.name}@${pkg.currentVersion}`, in insertion order; the first
\* PackageInfo of a key gives the entry its pkg and its type, every one adds
\* its packageJsonPath to the entry's Set.
RECURSIVE uniquePackages(_, _)
uniquePackages(pkgs, unique) ==
    IF Len(pkgs) = 0 THEN unique
    ELSE LET pkg == Head(pkgs)
             has == {k \in 1..Len(unique) :
                        /\ unique[k].pkg.name = pkg.name
                        /\ unique[k].pkg.currentVersion = pkg.currentVersion}
         IN  IF has = {}
             THEN uniquePackages(
                      Tail(pkgs),
                      Append(unique,
                             [pkg |-> pkg,
                              packageJsonPaths |-> <<pkg.packageJsonPath>>,
                              type |-> pkg.type]))
             ELSE LET k == CHOOSE k \in has : TRUE
                      paths == unique[k].packageJsonPaths
                  IN  uniquePackages(
                          Tail(pkgs),
                          [unique EXCEPT ![k].packageJsonPaths =
                              IF pkg.packageJsonPath \in Range(paths)
                              THEN paths
                              ELSE Append(paths, pkg.packageJsonPath)])

\* deduplicatedPackages.sort: by name, entries of one name in the order of
\* the Map (Array.prototype.sort is stable).
deduplicatedPackages(pkgs) ==
    LET unique == uniquePackages(pkgs, <<>>)
        before(m, k) == \/ unique[m].pkg.name < unique[k].pkg.name
                        \/ /\ unique[m].pkg.name = unique[k].pkg.name
                           /\ m < k
    IN  [j \in 1..Len(unique) |->
            unique[CHOOSE k \in 1..Len(unique) :
                       Cardinality({m \in 1..Len(unique) : before(m, k)})
                           = j - 1]]

\* The rows selectPackagesToUpgrade builds from the packages of the run for
\* its first session: one per deduplicated package, every row at none.
selectionStates(packages, opts) ==
    LET deduplicated == deduplicatedPackages(filteredPackages(packages, opts))
    IN  [i \in 1..Len(deduplicated) |->
            [NewRow(deduplicated[i].pkg.name,
                    deduplicated[i].pkg.currentVersion,
                    deduplicated[i].pkg.hasRangeUpdate,
                    deduplicated[i].pkg.hasMajorUpdate, "none")
                EXCEPT !.rangeVersion = deduplicated[i].pkg.rangeVersion,
                       !.latestVersion = deduplicated[i].pkg.latestVersion,
                       !.packageJsonPaths = deduplicated[i].packageJsonPaths]]

\* The manifest entries of a run whose rows are given: every row is a
\* dependency of the root manifest.
ManifestsOf(rows) ==
    {[packageJsonPath |-> RootManifest, type |-> "dependencies",
      name |-> rows[i].name, version |-> rows[i].currentVersionSpecifier] :
        i \in 1..Len(rows)}

\* new StateManager(0, height), setRenderableItems(items), then the first
\* paint, which leaves isInitialRender false.
NewUIState(height, chrome, items) ==
    [currentRow |-> 0,
     scrollOffset |-> 0,
     maxVisibleItems |-> Capacity(height, chrome),
     terminalHeight |-> height,
     isInitialRender |-> FALSE,
     renderableItems |-> items,
     showInfoModal |-> FALSE,
     infoModalRow |-> -1,
     isLoadingModalInfo |-> FALSE]

Chrome == IF impl = "modular" THEN headerLines ELSE legacyHeaderLines

\* renderInterface: paints a frame, then setInitialRender(false).
renderInterface(ui) == [ui EXCEPT !.isInitialRender = FALSE]

\* The way renderInterface starts a frame: console.clear() when
\* isInitialRender is set, the cursor-home sequence otherwise.
FrameOf(ui) == IF ui.isInitialRender THEN "clear" ELSE "home"

\* renderInterface() on the StateManager as the handler left it.
Paint(ui) == uiState' = renderInterface(ui) /\ frame' = FrameOf(ui)

\* A handler that does not call renderInterface.
NoPaint == frame' = "none"

navigate(ui, direction, totalItems) ==
    LET next == findNextPackageIndex(ui.renderableItems, ui.currentRow,
                                     direction, totalItems)
    IN  [ui EXCEPT !.currentRow = next,
                   !.scrollOffset = ensureVisible(ui.renderableItems,
                                        ui.scrollOffset, ui.maxVisibleItems,
                                        next, totalItems)]

\* case 'up' / case 'down' of the monolithic handleKeypress.
legacyNavigate(ui, direction, totalItems) ==
    LET next == IF direction = "up"
                THEN IF ui.currentRow - 1 < 0 THEN totalItems - 1
                     ELSE ui.currentRow - 1
                ELSE IF ui.currentRow + 1 >= totalItems THEN 0
                     ELSE ui.currentRow + 1
    IN  [ui EXCEPT !.currentRow = next,
                   !.scrollOffset = legacyEnsureVisible(ui.scrollOffset,
                                        ui.maxVisibleItems, next, totalItems)]

updateTerminalHeightChanged(ui, newHeight) ==
    ~(/\ newHeight = ui.terminalHeight
      /\ Capacity(newHeight, headerLines) = ui.maxVisibleItems)

updateTerminalHeight(ui, newHeight) ==
    IF updateTerminalHeightChanged(ui, newHeight)
    THEN [ui EXCEPT !.terminalHeight = newHeight,
                    !.maxVisibleItems = Capacity(newHeight, headerLines)]
    ELSE ui

resetForResize(ui) ==
    LET totalItems == IF Len(ui.renderableItems) # 0 THEN Len(ui.renderableItems)
                      ELSE ui.maxVisibleItems
    IN  [ui EXCEPT !.scrollOffset = ensureVisible(ui.renderableItems,
                                        ui.scrollOffset, ui.maxVisibleItems,
                                        ui.currentRow, totalItems),
                   !.isInitialRender = TRUE]

toggleInfoModal(ui) ==
    IF ui.showInfoModal
    THEN [ui EXCEPT !.showInfoModal = FALSE, !.infoModalRow = -1,
                    !.isInitialRender = TRUE]
    ELSE [ui EXCEPT !.showInfoModal = TRUE, !.infoModalRow = ui.currentRow,
                    !.isInitialRender = TRUE]

\* setModalLoading that leaves isInitialRender alone.
setModalLoadingKeepsFlag(ui, isLoading) ==
    [ui EXCEPT !.isLoadingModalInfo = isLoading]

setModalLoading(ui, isLoading) ==
    [ui EXCEPT !.isLoadingModalInfo = isLoading, !.isInitialRender = TRUE]

\* states.filter((s) => s.selectedOption !== 'none').length
selectedCount(sts) ==
    Cardinality({i \in 1..Len(sts) : sts[i].selectedOption # "none"})

\* handleCancel resolving with the rows as they are.
handleCancelResultKept(sts) == sts

\* states.map((s) => ({ ...s, selectedOption: 'none' }))
handleCancelResult(sts) ==
    [i \in 1..Len(sts) |-> [sts[i] EXCEPT !.selectedOption = "none"]]

\* handleConfirm resolving with only the selected rows.
handleConfirmResultFiltered(sts) ==
    SelectSeq(sts, LAMBDA r : r.selectedOption # "none")

\* The value handleConfirm resolves the session with.
handleConfirmResult(sts) == sts

\* A confirmation prompt's listener left on stdin by an earlier prompt.
HasPromptListener ==
    \E i \in 1..Len(listeners) : listeners[i] = "prompt"

\* ConfirmationInputHandler.handleKeypress reacts to the key: cleanup() and
\* onConfirm run.
PromptHandles(k) == HasPromptListener /\ k \in PromptKeys

\* ConfirmationValue with n treated as a cancel.
ConfirmationValueNoGoBack(k) ==
    CASE k \in {"y", "return"} -> "true"
      [] k = "n" -> "false"
      [] k = "escape" -> "false"

\* onConfirm's argument for the key.
ConfirmationValue(k) ==
    CASE k \in {"y", "return"} -> "true"
      [] k = "n" -> "null"
      [] k = "escape" -> "false"

\* Listeners left once a selection session has resolved.
ListenersAfterSession ==
    IF impl = "modular" THEN <<>>
    ELSE SelectSeq(listeners, LAMBDA l : l # "select")

\* Listeners left once a prompt has resolved: the modular handler's cleanup
\* removes none, the monolithic one removes itself.
ListenersAfterPrompt ==
    IF impl = "modular" THEN listeners
    ELSE SelectSeq(listeners, LAMBDA l : l # "prompt")

\* -------------------------------------------------------------------- Init

\* Flags of a row, as the version comparison resolved them.
Flags == [hasRangeUpdate : BOOLEAN, hasMajorUpdate : BOOLEAN]

\* The options a row with these flags can be seeded with: the cycling and the
\* bulk operations of an earlier session leave no other.
ValidOptions(f) ==
    {"none"} \cup (IF f.hasRangeUpdate THEN {"range"} ELSE {})
             \cup (IF f.hasMajorUpdate THEN {"latest"} ELSE {})

\* Flags of the rows of a whole run. A run lists outdated packages only
\* (isOutdated = hasRangeUpdate || hasMajorUpdate), so no row lacks both;
\* the run is explored on rows offering both updates, and SpecSel exercises
\* the selection operations on every combination.
RunFlags == {f \in Flags : f.hasRangeUpdate /\ f.hasMajorUpdate}

\* The state once a selection session has set up key handling (raw mode on,
\* stdin resumed, its listener registered) and painted its first frame.
SessionStarted(rows, ui) ==
    /\ phase = "select"
    /\ states = rows
    /\ uiState = ui
    /\ rawMode = TRUE
    /\ flowing = TRUE
    /\ listeners = <<"select">>
    /\ fetches = <<>>
    /\ selected = <<>>
    /\ resolvedBy = "pending"
    /\ resolveCalls = 0
    /\ selectedChoices = <<>>
    /\ shouldProceed = "pending"
    /\ lastKey = "start"
    /\ manifests = ManifestsOf(rows)
    /\ options = DefaultOptions
    /\ frame = "clear"

\* The first selection session of a run: every row starts at none (no
\* selection memory), the list is flat (setRenderableItems([])).
Init ==
    /\ impl \in Impls
    /\ \E n \in 1..MaxRows : \E f \in [1..n -> RunFlags] :
          SessionStarted(
              [i \in 1..n |->
                  NewRow(i, CaretSpecifier,
                         f[i].hasRangeUpdate, f[i].hasMajorUpdate, "none")],
              NewUIState(defaultTerminalHeight,
                         IF impl = "modular" THEN headerLines
                         ELSE legacyHeaderLines, <<>>))

\* A selection session over rows of any flags, seeded with any valid option.
InitSel ==
    /\ impl \in Impls
    /\ \E n \in 1..MaxRows : \E f \in [1..n -> Flags] :
       \E o \in [1..n -> Options] :
          /\ \A i \in 1..n : o[i] \in ValidOptions(f[i])
          /\ SessionStarted(
                 [i \in 1..n |->
                     NewRow(i, CaretSpecifier,
                            f[i].hasRangeUpdate, f[i].hasMajorUpdate, o[i])],
                 NewUIState(defaultTerminalHeight,
                            IF impl = "modular" THEN headerLines
                            ELSE legacyHeaderLines, <<>>))

\* The first session of a run over packages of any specifier.
InitChoices ==
    /\ impl \in Impls
    /\ \E n \in 1..MaxRows : \E f \in [1..n -> RunFlags] :
       \E s \in [1..n -> Specifiers] :
          SessionStarted(
              [i \in 1..n |->
                  NewRow(i, s[i],
                         f[i].hasRangeUpdate, f[i].hasMajorUpdate, "none")],
              NewUIState(defaultTerminalHeight,
                         IF impl = "modular" THEN headerLines
                         ELSE legacyHeaderLines, <<>>))

\* A selection session about to set up its key handling: the rows are
\* seeded, the StateManager is built, nothing is painted, stdin is as the
\* run left it.
InitStart ==
    /\ impl \in Impls
    /\ \E n \in 1..MaxRows : \E f \in [1..n -> Flags] :
       \E o \in [1..n -> Options] :
          /\ \A i \in 1..n : o[i] \in ValidOptions(f[i])
          /\ states = [i \in 1..n |->
                          NewRow(i, CaretSpecifier, f[i].hasRangeUpdate,
                                 f[i].hasMajorUpdate, o[i])]
    /\ phase = "starting"
    /\ uiState = [NewUIState(defaultTerminalHeight,
                             IF impl = "modular" THEN headerLines
                             ELSE legacyHeaderLines, <<>>)
                     EXCEPT !.isInitialRender = TRUE]
    /\ rawMode = FALSE
    /\ flowing = FALSE
    /\ listeners = <<>>
    /\ fetches = <<>>
    /\ selected = <<>>
    /\ resolvedBy = "pending"
    /\ resolveCalls = 0
    /\ selectedChoices = <<>>
    /\ shouldProceed = "pending"
    /\ lastKey = "seeded"
    /\ manifests = ManifestsOf(states)
    /\ options = DefaultOptions
    /\ frame = "none"

\* The names, the specifiers and the flags of the workspaces of SpecUpgrade.
PackageNames == {1, 2}
UpgradeSpecifiers == {CaretSpecifier, "~4.1.0"}
OptionSets == [includePeerDeps : BOOLEAN, includeOptionalDeps : BOOLEAN]

\* The places of a dependency entry: a manifest, a kind, a name.
EntrySlots ==
    [packageJsonPath : Range(ManifestPaths),
     type : Range(depTypes([includePeerDeps |-> TRUE,
                            includeOptionalDeps |-> TRUE])),
     name : PackageNames]

\* The manifests of a workspace: a specifier in each of up to MaxEntries
\* places.
Workspaces ==
    UNION {{{[packageJsonPath |-> e.packageJsonPath, type |-> e.type,
              name |-> e.name, version |-> version[e]] : e \in slots} :
               version \in [slots -> UpgradeSpecifiers]} :
           slots \in {S \in SUBSET EntrySlots : Cardinality(S) <= MaxEntries}}

\* A run that has detected the packages of a workspace and is about to build
\* the rows of its first session.
InitUpgrade ==
    /\ impl \in Impls
    /\ manifests \in Workspaces
    /\ options \in OptionSets
    /\ phase = "detected"
    /\ states = <<>>
    /\ uiState = [NewUIState(defaultTerminalHeight,
                             IF impl = "modular" THEN headerLines
                             ELSE legacyHeaderLines, <<>>)
                     EXCEPT !.isInitialRender = TRUE]
    /\ rawMode = FALSE
    /\ flowing = FALSE
    /\ listeners = <<>>
    /\ fetches = <<>>
    /\ selected = <<>>
    /\ resolvedBy = "pending"
    /\ resolveCalls = 0
    /\ selectedChoices = <<>>
    /\ shouldProceed = "pending"
    /\ lastKey = "detected"
    /\ frame = "none"

\* The versions a registry of a range run may publish.
PublishedVersions ==
    {SemVer(4, 0, 0), SemVer(4, 1, 0), SemVer(4, 1, 5), SemVer(4, 2, 0),
     SemVer(5, 0, 0), SemVer(5, 1, 0)}

\* The lists getAllPackageData can hand over: up to MaxVersions published
\* versions, greatest first (allVersions.sort(semver.rcompare)).
PublishedLists ==
    LET rank == [v \in PublishedVersions |->
                    0 - (v.major * 100 + v.minor * 10 + v.patch)]
    IN  {OrderedBy(S, rank) :
            S \in {T \in SUBSET PublishedVersions :
                      Cardinality(T) \in 1..MaxVersions}}

\* A run that has read one dependency of the root manifest, in any specifier
\* form, and is about to ask the registry for its versions.
InitRange ==
    /\ impl \in Impls
    /\ \E version \in Specifiers :
           manifests = {[packageJsonPath |-> RootManifest,
                         type |-> "dependencies", name |-> 1,
                         version |-> version]}
    /\ options = DefaultOptions
    /\ phase = "detected"
    /\ states = <<>>
    /\ uiState = [NewUIState(defaultTerminalHeight,
                             IF impl = "modular" THEN headerLines
                             ELSE legacyHeaderLines, <<>>)
                     EXCEPT !.isInitialRender = TRUE]
    /\ rawMode = FALSE
    /\ flowing = FALSE
    /\ listeners = <<>>
    /\ fetches = <<>>
    /\ selected = <<>>
    /\ resolvedBy = "pending"
    /\ resolveCalls = 0
    /\ selectedChoices = <<>>
    /\ shouldProceed = "pending"
    /\ lastKey = "detected"
    /\ frame = "none"

\* Terminal heights of a navigation run: capacities 5 and 6 in the modular
\* session, 5 to 9 in the monolithic one.
NavHeights == {11, 12, 14, 15}

\* The n packages 0..n-1 in order, cut into sections of the given sizes.
RECURSIVE SectionItems(_, _, _, _)
SectionItems(sizes, from, headerFirst, isFirst) ==
    IF Len(sizes) = 0 THEN <<>>
    ELSE LET pkgs == [j \in 1..Head(sizes) |-> PackageItem(from + j - 1)]
             lead == IF headerFirst THEN <<HeaderItem, SpacerItem>>
                     ELSE IF isFirst THEN <<HeaderItem>>
                     ELSE <<SpacerItem, HeaderItem>>
         IN  lead \o pkgs
                  \o SectionItems(Tail(sizes), from + Head(sizes),
                                  headerFirst, FALSE)

RECURSIVE SeqSum(_)
SeqSum(q) == IF Len(q) = 0 THEN 0 ELSE Head(q) + SeqSum(Tail(q))

\* The section sizes of n packages grouped into up to three sections (main,
\* peer, optional), each with at least one package.
SectionSizes(n) ==
    {q \in UNION {[1..k -> 1..n] : k \in 1..3} : SeqSum(q) = n}

\* Renderable lists of n packages: flat (empty list), or sectioned with a
\* header per section and a spacer either between sections or under each
\* header.
Layouts(n) ==
    {<<>>} \cup {SectionItems(q, 0, hf, TRUE) :
                    q \in SectionSizes(n), hf \in BOOLEAN}

\* The members of a set of package indices in increasing order.
Ascending(S) ==
    [j \in 1..Cardinality(S) |->
        CHOOSE x \in S : Cardinality({y \in S : y < x}) = j - 1]

\* The n packages grouped by kind (1 main, 2 peer, 3 optional), a section
\* per kind that occurs, from kind k on: the packages of a section need not
\* be neighbours in the state list.
RECURSIVE GroupedItems(_, _, _, _, _)
GroupedItems(n, kindOf, k, headerFirst, isFirst) ==
    IF k > 3 THEN <<>>
    ELSE LET members == {i \in 0..(n - 1) : kindOf[i] = k}
             pkgs == [j \in 1..Cardinality(members) |->
                         PackageItem(Ascending(members)[j])]
             lead == IF headerFirst THEN <<HeaderItem, SpacerItem>>
                     ELSE IF isFirst THEN <<HeaderItem>>
                     ELSE <<SpacerItem, HeaderItem>>
         IN  IF members = {}
             THEN GroupedItems(n, kindOf, k + 1, headerFirst, isFirst)
             ELSE lead \o pkgs
                       \o GroupedItems(n, kindOf, k + 1, headerFirst, FALSE)

\* Sectioned lists of n packages of any kinds.
GroupedLayouts(n) ==
    IF n > MaxGroupedRows THEN {}
    ELSE {GroupedItems(n, kindOf, 1, hf, TRUE) :
             kindOf \in [0..(n - 1) -> 1..3], hf \in BOOLEAN}

\* The long list of the wrap-around scenario: 60 packages in a viewport of
\* capacity 20.
WrapScenario == [packages |-> 60, capacity |-> 20]

\* A StateManager over a flat or sectioned list of packages (the monolithic
\* session is flat), at any of the heights.
InitNav ==
    /\ impl \in Impls
    /\ \/ \E n \in 1..MaxNavRows : \E h \in NavHeights :
          \E items \in (IF impl = "modular"
                         THEN Layouts(n) \cup GroupedLayouts(n)
                         ELSE {<<>>}) :
             SessionStarted(
                 [i \in 1..n |-> NewRow(i, CaretSpecifier, TRUE, TRUE, "none")],
                 NewUIState(h, IF impl = "modular" THEN headerLines
                               ELSE legacyHeaderLines, items))
       \/ SessionStarted(
              [i \in 1..WrapScenario.packages |->
                  NewRow(i, CaretSpecifier, TRUE, TRUE, "none")],
              NewUIState(WrapScenario.capacity + footerLines
                             + (IF impl = "modular" THEN headerLines
                                ELSE legacyHeaderLines),
                         IF impl = "modular" THEN headerLines
                         ELSE legacyHeaderLines, <<>>))

\* --------------------------------------------------------- selection session

\* The fallback that resolves with every row reset to none.
fallbackResultReset(sts) ==
    [i \in 1..Len(sts) |-> [sts[i] EXCEPT !.selectedOption = "none"]]

\* The value the catch block of the setup resolves the session with.
fallbackResult(sts) == sts

\* The setup of key handling at the start of a session. setRawMode(true)
\* either succeeds, and stdin is resumed, the listener registered and the
\* first frame painted, or throws, and the catch block resolves the session
\* before anything was registered or resumed.
SetupSession ==
    /\ phase = "starting"
    /\ \/ /\ phase' = "select"
          /\ rawMode' = TRUE
          /\ flowing' = TRUE
          /\ listeners' = Append(listeners, "select")
          /\ Paint(uiState)
          /\ lastKey' = "start"
          /\ UNCHANGED <<selected, resolvedBy, resolveCalls>>
       \/ /\ phase' = "selected"
          /\ selected' = fallbackResult(states)
          /\ resolvedBy' = "fallback"
          /\ resolveCalls' = resolveCalls + 1
          /\ lastKey' = "raw-mode-error"
          /\ NoPaint
          /\ UNCHANGED <<rawMode, flowing, listeners, uiState>>
    /\ UNCHANGED <<impl, manifests, options, states, fetches, selectedChoices, shouldProceed>>

\* A key reaches the selection session: stdin is flowing and the session's
\* listener is registered.
InSession == phase = "select" /\ flowing

\* Raw mode and flow after a key the session handler itself leaves alone: a
\* prompt listener still registered runs its cleanup() on the prompt's keys.
SessionKeepsInput(k) ==
    /\ rawMode' = IF PromptHandles(k) THEN FALSE ELSE rawMode
    /\ flowing' = IF PromptHandles(k) THEN FALSE ELSE flowing

\* What no key of the selection session changes.
SessionFrame ==
    UNCHANGED <<impl, manifests, options, selectedChoices, shouldProceed>>

\* What a key that does not resolve the session leaves alone.
Unresolved ==
    UNCHANGED <<phase, listeners, selected, resolvedBy, resolveCalls>>

\* handleAction for the four arrow keys and the three bulk keys: ignored
\* while the modal is open, then renderInterface.
KeyNavigate(k, direction) ==
    /\ InSession
    /\ lastKey' = k
    /\ Paint(IF impl = "modular"
             THEN IF ~uiState.showInfoModal
                  THEN navigate(uiState, direction, Len(states))
                  ELSE uiState
             ELSE legacyNavigate(uiState, direction, Len(states)))
    /\ SessionKeepsInput(k)
    /\ SessionFrame /\ Unresolved
    /\ UNCHANGED <<states, fetches>>

KeyUp == KeyNavigate("up", "up")

KeyDown == KeyNavigate("down", "down")

\* ListKeysActive that lets the selection keys through an open modal.
ListKeysAlwaysActive == TRUE

\* The modular session ignores selection keys while the modal is open; the
\* monolithic session has no modal.
ListKeysActive == impl = "legacy" \/ ~uiState.showInfoModal

KeySelect(k, direction) ==
    /\ InSession
    /\ lastKey' = k
    /\ states' = IF ListKeysActive
                 THEN updateSelection(states, uiState.currentRow, direction)
                 ELSE states
    /\ Paint(uiState)
    /\ SessionKeepsInput(k)
    /\ SessionFrame /\ Unresolved
    /\ UNCHANGED fetches

KeyLeft == KeySelect("left", "left")

KeyRight == KeySelect("right", "right")

KeyBulk(k, sts) ==
    /\ InSession
    /\ lastKey' = k
    /\ states' = IF ListKeysActive THEN sts ELSE states
    /\ Paint(uiState)
    /\ SessionKeepsInput(k)
    /\ SessionFrame /\ Unresolved
    /\ UNCHANGED fetches

KeyM == KeyBulk("m", bulkSelectMinor(states))

KeyL == KeyBulk("l", bulkSelectLatest(states))

KeyU == KeyBulk("u", bulkUnselectAll(states))

\* What resolving the session's promise changes besides its value: the
\* cleanup (raw mode off, stdin paused, listeners removed) and the resolve.
ResolveSession(result, path) ==
    /\ phase' = "selected"
    /\ selected' = result
    /\ resolvedBy' = path
    /\ resolveCalls' = resolveCalls + 1
    /\ rawMode' = FALSE
    /\ flowing' = FALSE
    /\ listeners' = ListenersAfterSession

\* case 'return': a warning when no row is selected, else cleanup and
\* onConfirm(states).
KeyReturn ==
    /\ InSession
    /\ lastKey' = "return"
    /\ IF selectedCount(states) = 0
       THEN /\ SessionKeepsInput("return")
            /\ Unresolved
       ELSE ResolveSession(handleConfirmResult(states), "confirm")
    /\ NoPaint
    /\ SessionFrame
    /\ UNCHANGED <<states, uiState, fetches>>

\* The fetches in flight once a fetch for the row has started. The order in
\* which pending fetches are held is no state of the program: they are kept
\* sorted, a fetch of an earlier session first. forOpenModal marks the fetch
\* started by the opening of the modal now shown.
StartFetch(fs, row) ==
    LET pos == Cardinality({i \in 1..Len(fs) : fs[i].stale \/ fs[i].row <= row})
    IN  SubSeq(fs, 1, pos)
            \o <<[row |-> row, stale |-> FALSE, forOpenModal |-> TRUE]>>
            \o SubSeq(fs, pos + 1, Len(fs))

\* The fetches in flight once the modal has been closed: none of them
\* belongs to a modal on screen.
ModalClosed(fs) ==
    [i \in 1..Len(fs) |-> [fs[i] EXCEPT !.forOpenModal = FALSE]]

\* The fetches in flight once their session has been left for a new one:
\* their callbacks hold the earlier session's rows and StateManager, so
\* they are all alike, and one stands for them.
Orphaned(fs) ==
    IF Len(fs) = 0 THEN <<>>
    ELSE <<[row |-> -1, stale |-> TRUE, forOpenModal |-> FALSE]>>

\* handleAction 'toggle_info_modal': opening sets the loading flag, paints
\* and starts the metadata fetch of the cursor row; closing paints.
ToggleModal(k) ==
    /\ lastKey' = k
    /\ IF ~uiState.showInfoModal
       THEN /\ Len(fetches) < MaxFetches
            /\ Paint(setModalLoading(toggleInfoModal(uiState), TRUE))
            /\ fetches' = StartFetch(fetches, uiState.currentRow)
       ELSE /\ Paint(toggleInfoModal(uiState))
            /\ fetches' = ModalClosed(fetches)
    /\ SessionKeepsInput(k)
    /\ SessionFrame /\ Unresolved
    /\ UNCHANGED states

\* A key the session's switch has no case for.
Ignored(k) ==
    /\ lastKey' = k
    /\ NoPaint
    /\ SessionKeepsInput(k)
    /\ SessionFrame /\ Unresolved
    /\ UNCHANGED <<states, uiState, fetches>>

\* case 'i': the modal toggle of the modular session; the monolithic
\* session has no such case.
KeyI ==
    /\ InSession
    /\ IF impl = "modular" THEN ToggleModal("i") ELSE Ignored("i")

\* case 'escape': the modular InputHandler dispatches toggle_info_modal; the
\* monolithic handler cleans up and resolves with every row reset to none.
KeyEscape ==
    /\ InSession
    /\ IF impl = "modular"
       THEN ToggleModal("escape")
       ELSE /\ lastKey' = "escape"
            /\ NoPaint
            /\ ResolveSession(handleCancelResult(states), "cancel")
            /\ SessionFrame
            /\ UNCHANGED <<states, uiState, fetches>>

\* y or n pressed during a selection session.
KeyOther ==
    /\ InSession
    /\ \E k \in {"y", "n"} : Ignored(k)

\* Ctrl-C handled as a cancel before the process exits.
KeyCtrlCCancels ==
    /\ phase \in {"select", "prompt"}
    /\ flowing
    /\ phase' = "exit"
    /\ lastKey' = "ctrl-c"
    /\ NoPaint
    /\ resolvedBy' = IF phase = "select" THEN "cancel" ELSE resolvedBy
    /\ resolveCalls' = IF phase = "select" THEN resolveCalls + 1
                       ELSE resolveCalls
    /\ shouldProceed' = IF phase = "prompt" THEN "false" ELSE shouldProceed
    /\ UNCHANGED <<impl, manifests, options, states, uiState, rawMode, flowing, listeners,
                   fetches, selected, selectedChoices>>

\* Ctrl-C in a session or a prompt: process.exit(0).
KeyCtrlC ==
    /\ phase \in {"select", "prompt"}
    /\ flowing
    /\ phase' = "exit"
    /\ lastKey' = "ctrl-c"
    /\ NoPaint
    /\ UNCHANGED <<impl, manifests, options, states, uiState, rawMode, flowing, listeners,
                   fetches, selected, resolvedBy, resolveCalls,
                   selectedChoices, shouldProceed>>

\* WithMetadata that fills the fields of every row.
WithMetadataAllRows(sts, row, metadata) ==
    IF metadata
    THEN [i \in 1..Len(sts) |-> [sts[i] EXCEPT !.metadata = "loaded"]]
    ELSE sts

\* The row's lazily filled fields after fetchPackageMetadata(...).then.
WithMetadata(sts, row, metadata) ==
    IF metadata /\ row + 1 \in 1..Len(sts)
    THEN [sts EXCEPT ![row + 1].metadata = "loaded"]
    ELSE sts

\* FetchSettled that leaves the modal loading when the fetch returned null.
FetchSettledOnMetadataOnly(ui, metadata) ==
    IF metadata THEN renderInterface(setModalLoading(ui, FALSE)) ELSE ui

\* The end of the .then callback, whatever the fetch returned:
\* setModalLoading(false), then renderInterface().
FetchSettled(ui, metadata) == renderInterface(setModalLoading(ui, FALSE))

\* The events of a settling fetch: with metadata, with null.
FetchEvents == {"fetch", "fetch-null"}

\* A metadata fetch settles, with metadata or with null. Its callback holds
\* the rows and the StateManager of the session that started it. It runs
\* when the event loop is waiting for input: the continuation of a resolved
\* session or prompt runs as a microtask, before any fetch callback.
FetchComplete ==
    /\ phase \in {"select", "prompt"}
    /\ \E i \in 1..Len(fetches) : \E metadata \in BOOLEAN :
          /\ fetches' = SubSeq(fetches, 1, i - 1)
                            \o SubSeq(fetches, i + 1, Len(fetches))
          /\ IF ~fetches[i].stale
             THEN /\ states' = WithMetadata(states, fetches[i].row, metadata)
                  /\ selected' = IF resolvedBy = "confirm"
                                 THEN WithMetadata(selected, fetches[i].row,
                                                   metadata)
                                 ELSE selected
                  /\ uiState' = FetchSettled(uiState, metadata)
                  /\ frame' = FrameOf(setModalLoading(uiState, FALSE))
             ELSE /\ UNCHANGED <<states, selected, uiState>>
                  /\ NoPaint
          /\ lastKey' = IF metadata THEN "fetch" ELSE "fetch-null"
    /\ UNCHANGED <<impl, manifests, options, phase, rawMode, flowing, listeners,
                   resolvedBy, resolveCalls, selectedChoices, shouldProceed>>

\* SIGWINCH during a selection session, with the terminal's new height.
Resize(h) ==
    /\ phase = "select"
    /\ lastKey' = "resize"
    /\ IF impl = "modular"
       THEN Paint(IF updateTerminalHeightChanged(uiState, h)
                  THEN resetForResize(updateTerminalHeight(uiState, h))
                  ELSE [uiState EXCEPT !.isInitialRender = TRUE])
       ELSE IF ~(/\ h = uiState.terminalHeight
                 /\ Capacity(h, legacyHeaderLines) = uiState.maxVisibleItems)
            THEN Paint([uiState EXCEPT
                          !.terminalHeight = h,
                          !.maxVisibleItems = Capacity(h, legacyHeaderLines),
                          !.scrollOffset = legacyEnsureVisible(uiState.scrollOffset,
                                               Capacity(h, legacyHeaderLines),
                                               uiState.currentRow, Len(states)),
                          !.isInitialRender = TRUE])
            ELSE UNCHANGED uiState /\ NoPaint
    /\ UNCHANGED <<impl, manifests, options, phase, states, rawMode, flowing, listeners,
                   fetches, selected, resolvedBy, resolveCalls,
                   selectedChoices, shouldProceed>>

\* ------------------------------------------------ run: selection and prompt

\* The choice selectPackagesToUpgrade builds from a selected row for one of
\* its package.json paths; row is the row's position, which stands for its
\* key `${name}@${currentVersionSpecifier}`.
ChoiceOf(state, i, packageJsonPath) ==
    [row |-> i,
     name |-> state.name,
     packageJsonPath |-> packageJsonPath,
     upgradeType |-> state.selectedOption,
     targetVersion |->
        applyVersionPrefix(state.currentVersionSpecifier,
                           IF state.selectedOption = "range"
                           THEN state.rangeVersion ELSE state.latestVersion),
     currentVersionSpecifier |-> state.currentVersionSpecifier]

\* The choices selectPackagesToUpgrade returns: for every row left on range
\* or latest, in row order, one per package.json path of the row.
RECURSIVE ChoicesFrom(_, _)
ChoicesFrom(sts, i) ==
    IF i > Len(sts) THEN <<>>
    ELSE IF sts[i].selectedOption # "none"
         THEN [k \in 1..Len(sts[i].packageJsonPaths) |->
                  ChoiceOf(sts[i], i, sts[i].packageJsonPaths[k])]
                  \o ChoicesFrom(sts, i + 1)
         ELSE ChoicesFrom(sts, i + 1)

ChoicesOf(sts) == ChoicesFrom(sts, 1)

\* ------------------------------------------------------------ PackageUpgrader

\* packageInfos.find of groupChoicesByFileAndType: the positions of the
\* PackageInfos of the choice's name in the choice's package.json; find
\* returns the first, undefined when there is none.
InfosOf(choice, packageInfos) ==
    {k \in 1..Len(packageInfos) :
        /\ packageInfos[k].name = choice.name
        /\ packageInfos[k].packageJsonPath = choice.packageJsonPath}

InfoOf(choice, packageInfos) ==
    packageInfos[SetMin(InfosOf(choice, packageInfos))]

\* The group key `${choice.packageJsonPath}|${info.type}` of a choice.
GroupKey(choice, packageInfos) ==
    [packageJsonPath |-> choice.packageJsonPath,
     type |-> InfoOf(choice, packageInfos).type]

\* groupChoicesByFileAndType: the choices that have a PackageInfo, grouped
\* by package.json and kind; groups in the order their first choice comes,
\* the choices of a group in the order they come.
RECURSIVE groupChoicesByFileAndType(_, _, _)
groupChoicesByFileAndType(choices, packageInfos, groups) ==
    IF Len(choices) = 0 THEN groups
    ELSE LET choice == Head(choices)
         IN  IF InfosOf(choice, packageInfos) = {}
             THEN groupChoicesByFileAndType(Tail(choices), packageInfos,
                                            groups)
             ELSE LET key == GroupKey(choice, packageInfos)
                      at == {g \in 1..Len(groups) : groups[g].key = key}
                  IN  groupChoicesByFileAndType(
                          Tail(choices), packageInfos,
                          IF at = {}
                          THEN Append(groups, [key |-> key,
                                               choices |-> <<choice>>])
                          ELSE [groups EXCEPT ![SetMin(at)].choices =
                                   Append(@, choice)])

\* packageJson[type][choice.name] = choice.targetVersion on the entries of
\* the manifests.
RECURSIVE WriteEntries(_, _, _)
WriteEntries(files, key, choices) ==
    IF Len(choices) = 0 THEN files
    ELSE LET choice == Head(choices)
             kept == {e \in files :
                         ~ /\ e.packageJsonPath = key.packageJsonPath
                           /\ e.type = key.type
                           /\ e.name = choice.name}
         IN  WriteEntries(
                 kept \cup {[packageJsonPath |-> key.packageJsonPath,
                             type |-> key.type,
                             name |-> choice.name,
                             version |-> choice.targetVersion]},
                 key, Tail(choices))

\* upgradeChoiceGroup: the range choices of the group, then its latest
\* choices, written to the kind of the group in its package.json.
upgradeChoiceGroup(files, group) ==
    LET rangeChoices ==
            SelectSeq(group.choices, LAMBDA c : c.upgradeType = "range")
        latestChoices ==
            SelectSeq(group.choices, LAMBDA c : c.upgradeType = "latest")
    IN  WriteEntries(WriteEntries(files, group.key, rangeChoices),
                     group.key, latestChoices)

RECURSIVE UpgradeGroups(_, _)
UpgradeGroups(files, groups) ==
    IF Len(groups) = 0 THEN files
    ELSE UpgradeGroups(upgradeChoiceGroup(files, Head(groups)), Tail(groups))

\* upgradePackages that stops after the first group.
upgradePackagesFirstGroup(files, choices, packageInfos) ==
    LET groups == groupChoicesByFileAndType(choices, packageInfos, <<>>)
    IN  IF Len(groups) = 0 THEN files
        ELSE LET first == [Head(groups) EXCEPT
                              !.choices = <<Head(Head(groups).choices)>>]
             IN  upgradeChoiceGroup(files, first)

\* upgradePackages: the manifests once every group is written.
upgradePackages(files, choices, packageInfos) ==
    UpgradeGroups(files,
                  groupChoicesByFileAndType(choices, packageInfos, <<>>))

\* getOutdatedPackages and selectPackagesToUpgrade up to the session, the
\* registry publishing the given versions: the packages of the run are
\* filtered by kind, deduplicated, sorted and turned into rows; without a
\* package to show it returns no choice and the run ends.
BuildRowsFrom(allVersions) ==
    /\ phase = "detected"
    /\ lastKey' = "rows"
    /\ NoPaint
    /\ LET rows == selectionStates(
                       getOutdatedPackages(manifests, options, allVersions),
                       options)
       IN  /\ states' = rows
           /\ phase' = IF Len(rows) = 0 THEN "done" ELSE "starting"
    /\ UNCHANGED <<impl, manifests, options, uiState, rawMode, flowing,
                   listeners, fetches, selected, resolvedBy, resolveCalls,
                   selectedChoices, shouldProceed>>

\* The rows of a run whose registry publishes RegistryVersions.
BuildRows == BuildRowsFrom(RegistryVersions)

\* The rows of a run whose registry publishes any of the drawn lists.
DetectRows == \E allVersions \in PublishedLists : BuildRowsFrom(allVersions)

\* selectPackagesToUpgrade's continuation and run's loop body up to
\* confirmUpgrade: no choice ends the run; otherwise the selections are
\* remembered and the confirmation prompt takes the keyboard.
RunAfterSelect ==
    /\ phase = "selected"
    /\ lastKey' = "run"
    /\ NoPaint
    /\ IF Len(ChoicesOf(selected)) = 0
       THEN /\ phase' = "done"
            /\ selectedChoices' = <<>>
            /\ UNCHANGED <<rawMode, flowing, listeners>>
       ELSE /\ phase' = "prompt"
            /\ selectedChoices' = ChoicesOf(selected)
            /\ rawMode' = TRUE
            /\ flowing' = TRUE
            /\ listeners' = Append(listeners, "prompt")
    /\ UNCHANGED <<impl, manifests, options, states, uiState, fetches, selected,
                   resolvedBy, resolveCalls, shouldProceed>>

\* ConfirmationInputHandler.handleKeypress (confirmUpgrade's handleKeypress in
\* the monolithic version) on y / Enter / n / Escape.
PromptKeypress ==
    /\ phase = "prompt"
    /\ flowing
    /\ \E k \in PromptKeys :
          /\ lastKey' = k
          /\ shouldProceed' = ConfirmationValue(k)
    /\ NoPaint
    /\ phase' = "prompted"
    /\ rawMode' = FALSE
    /\ flowing' = FALSE
    /\ listeners' = ListenersAfterPrompt
    /\ UNCHANGED <<impl, manifests, options, states, uiState, fetches, selected,
                   resolvedBy, resolveCalls, selectedChoices>>

\* A key the prompt's switch has no case for.
PromptIgnoredKeys == {"up", "u"}

PromptIgnored ==
    /\ phase = "prompt"
    /\ flowing
    /\ \E k \in PromptIgnoredKeys : lastKey' = k
    /\ NoPaint
    /\ UNCHANGED <<impl, manifests, options, phase, states, uiState, rawMode, flowing, listeners,
                   fetches, selected, resolvedBy, resolveCalls,
                   selectedChoices, shouldProceed>>

\* run's selection memory, built from the choices of the session before:
\* the upgrade type of each chosen row, keyed by name@specifier (one key per
\* row).
\* A selection memory that remembers nothing.
previousSelectionsEmpty(choices) == [i \in {} |-> "none"]

previousSelections(choices) ==
    [i \in {choices[j].row : j \in 1..Len(choices)} |->
        LET j == CHOOSE j \in 1..Len(choices) : choices[j].row = i
        IN  choices[j].upgradeType]

\* The rows selectPackagesToUpgrade builds for a new session:
\* previousSelections?.get(key) || 'none'.
SeededRows(sts, memory) ==
    [i \in 1..Len(sts) |->
        [NewRow(sts[i].name, sts[i].currentVersionSpecifier,
                sts[i].hasRangeUpdate, sts[i].hasMajorUpdate,
                IF i \in DOMAIN memory THEN memory[i] ELSE "none")
            EXCEPT !.packageJsonPaths = sts[i].packageJsonPaths]]

\* run's loop after confirmUpgrade: null goes back to a new selection
\* session, false ends the run, true ends the loop and upgradePackages
\* rewrites the manifests with the choices and the packages the run detected
\* (the manifests are as the detection read them). selectedChoices and the selection
\* memory are overwritten by the new session's result before they are read
\* again, so the state forgets them once the new rows are seeded.
RunAfterPrompt ==
    /\ phase = "prompted"
    /\ lastKey' = "run"
    /\ IF shouldProceed = "null"
       THEN /\ phase' = "select"
            /\ fetches' = Orphaned(fetches)
            /\ states' = SeededRows(states, previousSelections(selectedChoices))
            /\ uiState' = NewUIState(defaultTerminalHeight, Chrome, <<>>)
            /\ frame' = "clear"
            /\ rawMode' = TRUE
            /\ flowing' = TRUE
            /\ listeners' = Append(listeners, "select")
            /\ selected' = <<>>
            /\ resolvedBy' = "pending"
            /\ resolveCalls' = 0
            /\ shouldProceed' = "pending"
            /\ selectedChoices' = <<>>
            /\ UNCHANGED manifests
       ELSE /\ phase' = "done"
            /\ NoPaint
            /\ manifests' =
                  IF shouldProceed = "true"
                  THEN upgradePackages(manifests, selectedChoices,
                                       Packages)
                  ELSE manifests
            /\ UNCHANGED <<states, uiState, rawMode, flowing, listeners,
                           fetches, selected, resolvedBy, resolveCalls,
                           shouldProceed, selectedChoices>>
    /\ UNCHANGED <<impl, options>>

\* ------------------------------------------------------------ specifications

Next ==
    \/ KeyUp
    \/ KeyDown
    \/ KeyLeft
    \/ KeyRight
    \/ KeyM
    \/ KeyL
    \/ KeyU
    \/ KeyI
    \/ KeyEscape
    \/ KeyReturn
    \/ KeyOther
    \/ KeyCtrlC
    \/ FetchComplete
    \/ RunAfterSelect
    \/ PromptKeypress
    \/ PromptIgnored
    \/ RunAfterPrompt

Spec == Init /\ [][Next]_vars

\* One selection session of the run, up to its end: every key, and the
\* fetches settling.
NextSession ==
    \/ KeyUp
    \/ KeyDown
    \/ KeyLeft
    \/ KeyRight
    \/ KeyM
    \/ KeyL
    \/ KeyU
    \/ KeyI
    \/ KeyEscape
    \/ KeyReturn
    \/ KeyOther
    \/ KeyCtrlC
    \/ FetchComplete

\* A session in which every fetch in flight settles while the session waits
\* for input.
SpecSession == Init /\ [][NextSession]_vars /\ WF_vars(FetchComplete)

\* Terminal heights of a resize during a session of the run: the height
\* the session starts with and a taller one.
SessionHeights == {defaultTerminalHeight, defaultTerminalHeight + 6}

\* One selection session of the run with the terminal resized under it.
NextSessionResized ==
    \/ NextSession
    \/ \E h \in SessionHeights : Resize(h)

SpecSessionResized == Init /\ [][NextSessionResized]_vars

\* A session up to the choices the run reads from it: cursor moves,
\* cycling, the confirmation, the run's continuation.
NextChoices ==
    \/ KeyDown
    \/ KeyRight
    \/ KeyReturn
    \/ RunAfterSelect

SpecChoices == InitChoices /\ [][NextChoices]_vars

\* The start of a session, with raw mode available or not, and what
\* follows it: the keys of the list, the confirmation, the run's reading of
\* the result.
NextStart ==
    \/ SetupSession
    \/ KeyDown
    \/ KeyLeft
    \/ KeyRight
    \/ KeyU
    \/ KeyReturn
    \/ RunAfterSelect

SpecStart == InitStart /\ [][NextStart]_vars

\* A run over the manifests of a workspace, from the detected packages to
\* the rewritten manifests.
NextUpgrade ==
    \/ BuildRows
    \/ SetupSession
    \/ KeyDown
    \/ KeyRight
    \/ KeyReturn
    \/ RunAfterSelect
    \/ PromptKeypress
    \/ RunAfterPrompt

SpecUpgrade == InitUpgrade /\ [][NextUpgrade]_vars

\* A range run: the rows are built from the versions the registry publishes,
\* then the session is used.
NextRange ==
    \/ DetectRows
    \/ SetupSession
    \/ KeyRight
    \/ KeyLeft
    \/ KeyReturn

SpecRange == InitRange /\ [][NextRange]_vars

\* The selection operations of one session.
NextSel ==
    \/ KeyUp
    \/ KeyDown
    \/ KeyLeft
    \/ KeyRight
    \/ KeyM
    \/ KeyL
    \/ KeyU

SpecSel == InitSel /\ [][NextSel]_vars

\* Navigation and resizing of one session.
NextNav ==
    \/ KeyUp
    \/ KeyDown
    \/ \E h \in NavHeights : Resize(h)

SpecNav == InitNav /\ [][NextNav]_vars

\* -------------------------------------------------------------------- claims

CursorRow == states[uiState.currentRow + 1]

CycleKeys == {"left", "right"}

\* C1: after any sequence of cycles and bulk operations on validly seeded
\* rows, a row on range has hasRangeUpdate and a row on latest has
\* hasMajorUpdate.
C1_SelectionAvailable ==
    \A i \in 1..Len(states) :
        /\ states[i].selectedOption = "range" => states[i].hasRangeUpdate
        /\ states[i].selectedOption = "latest" => states[i].hasMajorUpdate

\* A bulk-select-latest has moved a range-only row to range next to a row it
\* moved to latest.
C1_Witness ==
    /\ lastKey = "l"
    /\ \E i, j \in 1..Len(states) :
          /\ states[i].selectedOption = "range" /\ ~states[i].hasMajorUpdate
          /\ states[j].selectedOption = "latest" /\ ~states[j].hasRangeUpdate

\* The cycling table of the claim, written out case by case.
C2_Table(option, hasRange, hasMajor, direction) ==
    CASE direction = "right" /\ option = "none" /\ hasRange -> "range"
      [] direction = "right" /\ option = "none" /\ ~hasRange /\ hasMajor -> "latest"
      [] direction = "right" /\ option = "none" /\ ~hasRange /\ ~hasMajor -> "none"
      [] direction = "right" /\ option = "range" /\ hasMajor -> "latest"
      [] direction = "right" /\ option = "range" /\ ~hasMajor -> "none"
      [] direction = "right" /\ option = "latest" -> "none"
      [] direction = "left" /\ option = "latest" /\ hasRange -> "range"
      [] direction = "left" /\ option = "latest" /\ ~hasRange -> "none"
      [] direction = "left" /\ option = "range" -> "none"
      [] direction = "left" /\ option = "none" /\ hasMajor -> "latest"
      [] direction = "left" /\ option = "none" /\ ~hasMajor /\ hasRange -> "range"
      [] direction = "left" /\ option = "none" /\ ~hasMajor /\ ~hasRange -> "none"

\* C2: a left or right key changes only the selectedOption of the row under
\* the cursor, and changes it as the table says.
C2_CycleFollowsTable ==
    [][lastKey' \in CycleKeys =>
        /\ Len(states') = Len(states)
        /\ \A i \in 1..Len(states) :
              IF i = uiState.currentRow + 1
              THEN states'[i] =
                     [states[i] EXCEPT !.selectedOption =
                         C2_Table(states[i].selectedOption,
                                  states[i].hasRangeUpdate,
                                  states[i].hasMajorUpdate, lastKey')]
              ELSE states'[i] = states[i]]_vars

\* A left key has wrapped the second of two rows from none to latest while
\* the first row stays on range.
C2_Witness ==
    /\ lastKey = "left"
    /\ Len(states) = 2
    /\ uiState.currentRow = 1
    /\ states[2].selectedOption = "latest"
    /\ states[2].hasRangeUpdate
    /\ states[1].selectedOption = "range"

\* C3: Escape closes the modal when it is open and the session continues;
\* with the modal closed, Escape resolves the session through the cancel
\* path.
C3_EscapeClosesOrCancels ==
    [][(lastKey' = "escape" /\ phase = "select") =>
        IF uiState.showInfoModal
        THEN /\ ~uiState'.showInfoModal
             /\ phase' = "select"
             /\ resolvedBy' = "pending"
        ELSE /\ phase' = "selected"
             /\ resolvedBy' = "cancel"]_vars

\* The selectedOption values of a list of rows.
OptionsOf(sts) == [i \in 1..Len(sts) |-> sts[i].selectedOption]

\* C4: Enter with at least one selected row resolves the session with the
\* rows as they are, in order, each with its current selectedOption (none
\* included); the session's resolve is called once, and the resolved
\* selections never change afterwards.
C4_ConfirmResolvesWithRows ==
    [][/\ (lastKey' = "return" /\ phase = "select" /\ selectedCount(states) > 0) =>
            /\ phase' = "selected"
            /\ resolvedBy' = "confirm"
            /\ selected' = states
            /\ resolveCalls = 0 /\ resolveCalls' = 1
       /\ (resolvedBy = "confirm" /\ resolvedBy' = "confirm") =>
            /\ OptionsOf(selected') = OptionsOf(selected)
            /\ resolveCalls' = resolveCalls]_vars

\* Enter has confirmed two rows, one on latest and one left at none.
C4_Witness ==
    /\ lastKey = "return"
    /\ phase = "selected"
    /\ resolvedBy = "confirm"
    /\ resolveCalls = 1
    /\ Len(selected) = 2
    /\ selected[1].selectedOption = "none"
    /\ selected[2].selectedOption = "latest"

\* C5: a session that resolves through the cancel path resolves with the
\* same rows in the same order, every selectedOption reset to none.
C5_CancelResetsAll ==
    [][(resolvedBy' = "cancel" /\ resolvedBy # "cancel") =>
        /\ Len(selected') = Len(states)
        /\ \A i \in 1..Len(states) :
              /\ selected'[i].selectedOption = "none"
              /\ selected'[i] = [states[i] EXCEPT !.selectedOption = "none"]]_vars

\* The session was cancelled with one row on range and one on latest.
C5_Witness ==
    /\ resolvedBy = "cancel"
    /\ phase = "selected"
    /\ \E i, j \in 1..Len(states) :
          /\ states[i].selectedOption = "range"
          /\ states[j].selectedOption = "latest"
    /\ \A i \in 1..Len(selected) : selected[i].selectedOption = "none"

\* C6: Enter with no row selected leaves the session pending and in raw
\* mode, and cursor, scroll offset, modal state and selections as they were.
C6_EnterWithoutSelection ==
    [][(lastKey' = "return" /\ phase = "select" /\ selectedCount(states) = 0) =>
        /\ phase' = "select"
        /\ resolvedBy' = "pending"
        /\ rawMode'
        /\ uiState'.currentRow = uiState.currentRow
        /\ uiState'.scrollOffset = uiState.scrollOffset
        /\ uiState'.showInfoModal = uiState.showInfoModal
        /\ uiState'.infoModalRow = uiState.infoModalRow
        /\ OptionsOf(states') = OptionsOf(states)]_vars

\* A row with its option replaced.
WithOption(state, option) == [state EXCEPT !.selectedOption = option]

\* C7: on every row, a left cycle followed by a right cycle, and a right
\* cycle followed by a left cycle, gives back the option the row has.
C7_CycleRoundTrip ==
    \A i \in 1..Len(states) :
        /\ CycleOption(WithOption(states[i], CycleOption(states[i], "left")),
                       "right") = states[i].selectedOption
        /\ CycleOption(WithOption(states[i], CycleOption(states[i], "right")),
                       "left") = states[i].selectedOption

\* A right key has moved a latest-only row from none to latest.
C7_Witness ==
    /\ lastKey = "right"
    /\ CursorRow.selectedOption = "latest"
    /\ ~CursorRow.hasRangeUpdate

\* The row after k presses of the same direction.
RECURSIVE Pressed(_, _, _)
Pressed(state, direction, k) ==
    IF k = 0 THEN state
    ELSE Pressed(WithOption(state, CycleOption(state, direction)), direction, k - 1)

FlagCount(state) ==
    (IF state.hasRangeUpdate THEN 1 ELSE 0) + (IF state.hasMajorUpdate THEN 1 ELSE 0)

\* C8: on a row with an update, repeated presses of one direction visit
\* exactly the available options and are back at the start after
\* 1 + (number of true flags) presses, not before.
C8_CycleVisitsAvailable ==
    \A i \in 1..Len(states) : \A d \in Directions :
        FlagCount(states[i]) > 0 =>
            /\ Pressed(states[i], d, 1 + FlagCount(states[i])).selectedOption
                   = states[i].selectedOption
            /\ {Pressed(states[i], d, k).selectedOption :
                   k \in 0..FlagCount(states[i])} = ValidOptions(states[i])
            /\ \A k \in 1..FlagCount(states[i]) :
                   Pressed(states[i], d, k).selectedOption
                       # states[i].selectedOption

\* A left key has brought a row with both updates from latest to range.
C8_Witness ==
    /\ lastKey = "left"
    /\ CursorRow.selectedOption = "range"
    /\ CursorRow.hasRangeUpdate
    /\ CursorRow.hasMajorUpdate

\* C9: a left or right key on a row with neither update changes nothing of
\* the session: the row stays at none, every other variable is as before.
C9_CycleWithoutUpdates ==
    [][(/\ lastKey' \in CycleKeys
        /\ ~CursorRow.hasRangeUpdate
        /\ ~CursorRow.hasMajorUpdate) =>
        /\ CursorRow.selectedOption = "none"
        /\ states' = states
        /\ uiState' = uiState
        /\ UNCHANGED <<phase, rawMode, flowing, listeners, fetches, selected,
                       resolvedBy, resolveCalls, selectedChoices,
                       shouldProceed>>]_vars

\* A cycle key was pressed on a row with neither update, next to a row that
\* is selected.
C9_Witness ==
    /\ lastKey \in CycleKeys
    /\ ~CursorRow.hasRangeUpdate
    /\ ~CursorRow.hasMajorUpdate
    /\ \E i \in 1..Len(states) : states[i].selectedOption # "none"

\* The cursor row's index in the renderable list.
CursorVisualIndex ==
    packageIndexToVisualIndex(uiState.renderableItems, uiState.currentRow)

CursorVisible ==
    /\ uiState.scrollOffset <= CursorVisualIndex
    /\ CursorVisualIndex < uiState.scrollOffset + uiState.maxVisibleItems

\* C10: after navigateUp or navigateDown the cursor row's visual index lies
\* in [scrollOffset, scrollOffset + capacity).
C10_CursorVisibleAfterNavigate ==
    lastKey \in {"up", "down"} => CursorVisible

\* navigateUp has wrapped to the last package of a sectioned list longer
\* than the viewport.
C10_Witness ==
    /\ lastKey = "up"
    /\ Len(uiState.renderableItems) > uiState.maxVisibleItems
    /\ uiState.currentRow = Len(states) - 1
    /\ uiState.scrollOffset > 0

\* Rows of the list the viewport scrolls over: the renderable items, or
\* the packages of a flat list.
TotalVisualRows ==
    IF Len(uiState.renderableItems) # 0 THEN Len(uiState.renderableItems)
    ELSE Len(states)

\* C11: in every state of a session, wrap-around navigation and resizes
\* included, 0 <= scrollOffset <= max(0, total visual rows - capacity).
C11_ScrollOffsetClamped ==
    /\ 0 <= uiState.scrollOffset
    /\ uiState.scrollOffset
         <= (IF TotalVisualRows - uiState.maxVisibleItems > 0
             THEN TotalVisualRows - uiState.maxVisibleItems ELSE 0)

\* A resize has enlarged the viewport of a list scrolled to its end: the
\* offset was pulled back to the new last window.
C11_Witness ==
    /\ lastKey = "resize"
    /\ uiState.maxVisibleItems > minVisibleItems
    /\ uiState.scrollOffset > 0
    /\ uiState.scrollOffset = TotalVisualRows - uiState.maxVisibleItems

\* Visual indices of the items tagged package.
PackageVisuals ==
    {i \in 0..(Len(uiState.renderableItems) - 1) :
        uiState.renderableItems[i + 1].type = "package"}

\* Position of a package row among the package rows, in the order the list
\* shows them: 0 for the first.
RowRank(row) ==
    IF Len(uiState.renderableItems) = 0 THEN row
    ELSE LET v == CHOOSE i \in PackageVisuals :
                      uiState.renderableItems[i + 1].originalIndex = row
         IN  Cardinality({p \in PackageVisuals : p < v})

NavigationKeys == {"up", "down"}

\* C12: navigateDown moves the cursor to the next package row and from the
\* last one to the first; navigateUp moves it to the previous package row
\* and from the first one to the last. With 60 packages, capacity 20 and
\* the cursor at row 0, navigateUp gives cursor 59 and scroll offset 40.
C12_NavigationWraps ==
    [][lastKey' \in NavigationKeys =>
        LET n == Len(states)
            rank == RowRank(uiState.currentRow)
        IN  /\ RowRank(uiState'.currentRow) =
                 IF lastKey' = "down"
                 THEN IF rank = n - 1 THEN 0 ELSE rank + 1
                 ELSE IF rank = 0 THEN n - 1 ELSE rank - 1
            /\ (/\ lastKey' = "up"
                /\ n = 60
                /\ uiState.maxVisibleItems = 20
                /\ uiState.currentRow = 0) =>
                   /\ uiState'.currentRow = 59
                   /\ uiState'.scrollOffset = 40]_vars

\* navigateUp has wrapped from row 0 of the 60-row list to row 59, with the
\* window on the last 20 rows.
C12_Witness ==
    /\ lastKey = "up"
    /\ Len(states) = 60
    /\ uiState.maxVisibleItems = 20
    /\ uiState.currentRow = 59
    /\ uiState.scrollOffset = 40

\* The cursor is a row of the state list and, in a sectioned list, the
\* item at its visual index is the package item of that row.
CursorOnPackage ==
    /\ uiState.currentRow \in 0..(Len(states) - 1)
    /\ Len(uiState.renderableItems) # 0 =>
          /\ CursorVisualIndex \in PackageVisuals
          /\ uiState.renderableItems[CursorVisualIndex + 1].originalIndex
                = uiState.currentRow

\* The visual index navigateDown has to reach from visual index v: the
\* next item tagged package below v, or the first one of the list.
NextPackageVisual(v) ==
    IF \E p \in PackageVisuals : p > v
    THEN CHOOSE p \in PackageVisuals :
             p > v /\ \A q \in PackageVisuals : q > v => p <= q
    ELSE CHOOSE p \in PackageVisuals : \A q \in PackageVisuals : p <= q

\* C13: the cursor is always a valid package index, in a sectioned list it
\* designates an item tagged package, and each navigateDown lands on the
\* next package item in renderable-list order, skipping headers and spacers.
C13_CursorOnPackageRows ==
    /\ []CursorOnPackage
    /\ [][(lastKey' = "down" /\ Len(uiState.renderableItems) # 0) =>
            packageIndexToVisualIndex(uiState'.renderableItems,
                                      uiState'.currentRow)
                = NextPackageVisual(CursorVisualIndex)]_vars

\* navigateDown has crossed a spacer and a header into a section whose
\* first package is not the next row of the state list.
C13_Witness ==
    /\ lastKey = "down"
    /\ Len(uiState.renderableItems) # 0
    /\ CursorVisualIndex >= 3
    /\ ~(uiState.renderableItems[CursorVisualIndex].type = "package")
    /\ uiState.renderableItems[CursorVisualIndex - 2].type = "package"
    /\ uiState.renderableItems[CursorVisualIndex - 2].originalIndex
          # uiState.currentRow - 1

\* The type of the renderable item at a visual index (0-based).
ItemType(v) == uiState.renderableItems[v + 1].type

\* The cursor's package is the first of its section: its header is the item
\* just above it, or above the spacer above it.
HeaderDirectlyAbove ==
    /\ CursorVisualIndex >= 1
    /\ ItemType(CursorVisualIndex - 1) = "header"

HeaderAboveSpacer ==
    /\ CursorVisualIndex >= 2
    /\ ItemType(CursorVisualIndex - 1) = "spacer"
    /\ ItemType(CursorVisualIndex - 2) = "header"

\* Visual index of the header of the section the cursor's package opens.
SectionHeaderIndex ==
    IF HeaderDirectlyAbove THEN CursorVisualIndex - 1 ELSE CursorVisualIndex - 2

\* C14: after a navigation onto the first package of a section, the
\* section's header is inside the visible window whenever header and
\* package fit in the viewport together.
C14_HeaderVisibleWithFirstPackage ==
    (/\ lastKey \in NavigationKeys
     /\ Len(uiState.renderableItems) # 0
     /\ HeaderDirectlyAbove \/ HeaderAboveSpacer
     /\ CursorVisualIndex - SectionHeaderIndex + 1 <= uiState.maxVisibleItems)
    => /\ uiState.scrollOffset <= SectionHeaderIndex
       /\ SectionHeaderIndex < uiState.scrollOffset + uiState.maxVisibleItems

\* navigateUp has scrolled back to the first package of a later section,
\* and the window starts at the header above its spacer.
C14_Witness ==
    /\ lastKey = "up"
    /\ Len(uiState.renderableItems) # 0
    /\ HeaderAboveSpacer
    /\ SectionHeaderIndex > 0
    /\ uiState.scrollOffset = SectionHeaderIndex

\* Control has left the session or the prompt: the session resolved, the
\* prompt resolved, the run ended, or the process exited.
ControlLeft == phase \in {"selected", "prompted", "done", "exit"}

\* C15: whenever a selection session or a confirmation prompt has ended, by
\* confirm, cancel, go-back or Ctrl-C, raw mode is off and stdin is paused.
C15_InputReleasedOnEveryEnd ==
    ControlLeft => (~rawMode /\ ~flowing)

\* C16: Ctrl-C in a session or a prompt ends the process at once: the
\* pending promise is not resolved, no action, confirm or cancel callback
\* runs for the key, and nothing happens after the exit.
C16_CtrlCExitsWithoutResolving ==
    [][/\ phase # "exit"
       /\ (lastKey' = "ctrl-c") =>
              /\ phase \in {"select", "prompt"}
              /\ phase' = "exit"
              /\ UNCHANGED <<states, uiState, fetches, selected, resolvedBy,
                             resolveCalls, selectedChoices, shouldProceed,
                             listeners>>]_vars

\* Ctrl-C has ended the process during a confirmation prompt that nothing
\* had answered.
C16_Witness ==
    /\ phase = "exit"
    /\ lastKey = "ctrl-c"
    /\ resolvedBy = "confirm"
    /\ Len(selectedChoices) > 0
    /\ shouldProceed = "pending"

C18_GoBackSeedsSelections ==
    [][(phase = "prompted" /\ phase' = "select") =>
        /\ Len(states') = Len(selected)
        /\ \A i \in 1..Len(selected) :
              /\ states'[i].selectedOption = selected[i].selectedOption
              /\ states'[i].hasRangeUpdate = selected[i].hasRangeUpdate
              /\ states'[i].hasMajorUpdate = selected[i].hasMajorUpdate]_vars

\* A session has just started after a go-back, with its first row seeded
\* on range and its second row on none.
C18_Witness ==
    /\ phase = "select"
    /\ lastKey = "run"
    /\ Len(states) = 2
    /\ states[1].selectedOption = "range"
    /\ states[2].selectedOption = "none"

\* The fetch started by the opening of the modal now shown is in flight.
OpeningFetchPending ==
    \E i \in 1..Len(fetches) : fetches[i].forOpenModal

\* C19: while the modal is open and the fetch started by that opening has
\* not completed, the loading flag is true, whatever keys and fetch
\* completions came in between.
C19_LoadingWhileFetchPending ==
    (phase = "select" /\ uiState.showInfoModal /\ OpeningFetchPending)
        => uiState.isLoadingModalInfo

\* C20: whenever the modal is closed the loading flag is false.
C20_ClosedModalNotLoading ==
    ~uiState.showInfoModal => ~uiState.isLoadingModalInfo

\* The fetches a step has settled: positions of fetches whose removal gives
\* the fetches after the step.
SettledFetches ==
    {i \in 1..Len(fetches) :
        fetches' = SubSeq(fetches, 1, i - 1)
                       \o SubSeq(fetches, i + 1, Len(fetches))}

\* C21: the completion of a metadata fetch, the modal closed or the cursor
\* moved meanwhile or not, changes no row other than the row the modal was
\* opened on when the fetch started, and changes neither modal visibility,
\* cursor row, scroll offset nor any row's selectedOption.
C21_FetchWritesOpeningRow ==
    [][lastKey' \in FetchEvents =>
        /\ uiState'.showInfoModal = uiState.showInfoModal
        /\ uiState'.infoModalRow = uiState.infoModalRow
        /\ uiState'.currentRow = uiState.currentRow
        /\ uiState'.scrollOffset = uiState.scrollOffset
        /\ OptionsOf(states') = OptionsOf(states)
        /\ \E i \in SettledFetches :
              \A r \in 1..Len(states) :
                  (fetches[i].stale \/ r # fetches[i].row + 1)
                      => states'[r] = states[r]]_vars

\* A fetch has filled the fields of the first row after the modal was
\* closed and the cursor moved to the second row, which is selected.
C21_Witness ==
    /\ lastKey = "fetch"
    /\ phase = "select"
    /\ ~uiState.showInfoModal
    /\ uiState.currentRow = 1
    /\ Len(states) = 2
    /\ states[1].metadata = "loaded"
    /\ states[2].metadata = "undefined"
    /\ states[2].selectedOption = "latest"

\* The step settles a fetch started by the session now on screen.
SettlesOwnFetch ==
    /\ lastKey' \in FetchEvents
    /\ \A i \in SettledFetches : ~fetches[i].stale

\* C22: when the fetch of a modal opening settles, with metadata or with
\* null, the loading flag is cleared and the frame repainted; null leaves
\* every row as it was; the session keeps its key handling. Every fetch
\* settling, a loading flag that is set is eventually cleared unless the
\* session ends first.
C22_SettledFetchClearsLoading ==
    /\ [][SettlesOwnFetch =>
            /\ ~uiState'.isLoadingModalInfo
            /\ ~uiState'.isInitialRender
            /\ (lastKey' = "fetch-null") => states' = states
            /\ UNCHANGED <<phase, rawMode, flowing, listeners, resolvedBy,
                           resolveCalls>>]_vars
    /\ uiState.isLoadingModalInfo
          ~> (~uiState.isLoadingModalInfo \/ phase # "select")

\* A fetch has returned null for the modal on screen: the flag is cleared,
\* the row's fields are still undefined and the session goes on.
C22_Witness ==
    /\ lastKey = "fetch-null"
    /\ phase = "select"
    /\ flowing
    /\ uiState.showInfoModal
    /\ ~uiState.isLoadingModalInfo
    /\ fetches = <<>>
    /\ states[uiState.infoModalRow + 1].metadata = "undefined"

\* The arrow keys and the bulk keys of the list.
ListKeys == {"up", "down", "left", "right", "m", "l", "u"}

\* C23: an arrow key or a bulk key pressed while the detail modal is open
\* changes neither the cursor row, the scroll offset nor any row; the modal
\* stays open.
C23_ListKeysIgnoredUnderModal ==
    [][(lastKey' \in ListKeys /\ phase = "select" /\ uiState.showInfoModal) =>
        /\ uiState'.currentRow = uiState.currentRow
        /\ uiState'.scrollOffset = uiState.scrollOffset
        /\ uiState'.showInfoModal
        /\ uiState'.infoModalRow = uiState.infoModalRow
        /\ states' = states]_vars

\* A bulk unselect was pressed under the modal opened on the second row,
\* which stays selected.
C23_Witness ==
    /\ lastKey = "u"
    /\ phase = "select"
    /\ uiState.showInfoModal
    /\ uiState.infoModalRow = 1
    /\ uiState.currentRow = 1
    /\ states[2].selectedOption = "range"

\* C24: updateTerminalHeight(h) of the modular session sets the capacity to
\* max(5, h - headerLines - 2) and returns true exactly when the capacity
\* it leaves differs from the capacity before.
C24_HeightChangeReportsCapacityChange ==
    [][(lastKey' = "resize" /\ impl = "modular") =>
        /\ uiState'.maxVisibleItems
              = Max(5, uiState'.terminalHeight - headerLines - 2)
        /\ updateTerminalHeightChanged(uiState, uiState'.terminalHeight)
              <=> (uiState'.maxVisibleItems # uiState.maxVisibleItems)]_vars

\* C25: bulkSelectMinor puts every row with hasRangeUpdate on range and
\* leaves every other row exactly as it was; cursor, scroll offset and modal
\* state are unchanged.
C25_BulkMinorFrame ==
    [][(lastKey' = "m" /\ phase = "select") =>
        /\ Len(states') = Len(states)
        /\ \A i \in 1..Len(states) :
              IF states[i].hasRangeUpdate
              THEN states'[i] = [states[i] EXCEPT !.selectedOption = "range"]
              ELSE states'[i] = states[i]
        /\ uiState'.currentRow = uiState.currentRow
        /\ uiState'.scrollOffset = uiState.scrollOffset
        /\ uiState'.showInfoModal = uiState.showInfoModal
        /\ uiState'.infoModalRow = uiState.infoModalRow
        /\ uiState'.isLoadingModalInfo = uiState.isLoadingModalInfo]_vars

\* A bulk select of the range updates has moved the first row to range and
\* left the second row, which has only a major update, on latest.
C25_Witness ==
    /\ lastKey = "m"
    /\ Len(states) = 2
    /\ states[1].selectedOption = "range"
    /\ states[1].hasMajorUpdate
    /\ ~states[2].hasRangeUpdate
    /\ states[2].selectedOption = "latest"
    /\ uiState.currentRow = 1

\* The option the claim gives a row after bulkSelectLatest.
C26_Best(state) ==
    IF state.hasMajorUpdate THEN "latest"
    ELSE IF state.hasRangeUpdate THEN "range"
    ELSE state.selectedOption

\* C26: bulkSelectLatest puts every row on latest if it has a major
\* update, otherwise on range if it has a range update, otherwise leaves
\* it, whatever the row's selection before; nothing else of a row changes.
C26_BulkLatestPicksBest ==
    [][(lastKey' = "l" /\ phase = "select") =>
        /\ Len(states') = Len(states)
        /\ \A i \in 1..Len(states) :
              states'[i] = [states[i] EXCEPT !.selectedOption =
                                                C26_Best(states[i])]]_vars

\* A bulk select of the best updates has put a row with both updates on
\* latest and a row with only a range update on range.
C26_Witness ==
    /\ lastKey = "l"
    /\ Len(states) = 2
    /\ states[1].hasRangeUpdate /\ states[1].hasMajorUpdate
    /\ states[1].selectedOption = "latest"
    /\ states[2].hasRangeUpdate /\ ~states[2].hasMajorUpdate
    /\ states[2].selectedOption = "range"

\* The item lines of the frame the session paints from its state.
ListFrame ==
    renderListLines(states, uiState.currentRow, uiState.scrollOffset,
                    uiState.maxVisibleItems, uiState.renderableItems)

\* The package lines of the list frame.
PackageLines ==
    {ListFrame[k] : k \in {j \in 1..Len(ListFrame) :
                               ListFrame[j].type = "package"}}

\* The slots of a line whose dot is filled.
FilledSlots(line) ==
    (IF line.currentDot = "filled" THEN {"none"} ELSE {})
        \cup (IF line.rangeDot = "filled" THEN {"range"} ELSE {})
        \cup (IF line.latestDot = "filled" THEN {"latest"} ELSE {})

\* C27: in the list frame every package line has exactly one filled dot,
\* in the slot of the row's selectedOption (the current slot for none), and
\* every row on screen has its line; after bulkUnselectAll every row is
\* none and every line has the current dot filled and no other.
C27_OneFilledIndicator ==
    (phase = "select" /\ ~uiState.showInfoModal) =>
        /\ \A line \in PackageLines :
              FilledSlots(line) = {states[line.row + 1].selectedOption}
        /\ {line.row : line \in PackageLines}
              = {r \in 0..(Len(states) - 1) :
                    /\ r >= uiState.scrollOffset
                    /\ r < uiState.scrollOffset + uiState.maxVisibleItems}
        /\ lastKey = "u" =>
              /\ \A i \in 1..Len(states) : states[i].selectedOption = "none"
              /\ \A line \in PackageLines :
                    /\ line.currentDot = "filled"
                    /\ line.rangeDot # "filled"
                    /\ line.latestDot # "filled"

\* The frame after a cycle shows a row on latest with a hollow current dot
\* and a hollow range dot, above a row with a range update only on range,
\* its latest slot blank.
C27_Witness ==
    /\ lastKey \in CycleKeys
    /\ Len(ListFrame) = 2
    /\ ListFrame[1].latestDot = "filled"
    /\ ListFrame[1].rangeDot = "hollow"
    /\ ListFrame[1].currentDot = "hollow"
    /\ ListFrame[2].rangeDot = "filled"
    /\ ListFrame[2].latestDot = "blank"

\* C28: when setRawMode throws during the setup, the session resolves in
\* that very step, once, with the rows as they were seeded, and neither
\* resumes stdin nor registers a listener; a session resolved this way
\* handles no key, so its result stays the seeded list.
C28_RawModeFailureFallsBack ==
    /\ [][lastKey' = "raw-mode-error" =>
            /\ phase = "starting" /\ phase' = "selected"
            /\ selected' = states
            /\ states' = states
            /\ resolveCalls' = 1
            /\ ~rawMode' /\ ~flowing'
            /\ listeners' = <<>>]_vars
    /\ [](resolvedBy = "fallback" =>
            /\ selected = states
            /\ lastKey \in {"raw-mode-error", "run"})

\* The setup has failed on a list seeded with a selection: the session is
\* resolved with the first row still on latest and the second on none.
C28_Witness ==
    /\ lastKey = "raw-mode-error"
    /\ phase = "selected"
    /\ resolvedBy = "fallback"
    /\ Len(selected) = 2
    /\ selected[1].selectedOption = "latest"
    /\ selected[2].selectedOption = "none"

\* Two rows agree on what identifies a row and on what it offers: on
\* everything but selectedOption and the lazily filled metadata.
SameIdentity(a, b) ==
    /\ a.name = b.name
    /\ a.currentVersionSpecifier = b.currentVersionSpecifier
    /\ a.rangeVersion = b.rangeVersion
    /\ a.latestVersion = b.latestVersion
    /\ a.hasRangeUpdate = b.hasRangeUpdate
    /\ a.hasMajorUpdate = b.hasMajorUpdate

\* C29: no step of a session (navigation, cycling, bulk operation, modal
\* toggle, resize, fetch completion, confirmation, cancellation) changes
\* the number or the order of the rows or any row's name, specifier,
\* versions, hasRangeUpdate or hasMajorUpdate.
C29_RowsKeepIdentity ==
    [][phase = "select" =>
        \/ states' = states
        \/ /\ Len(states') = Len(states)
           /\ \A i \in 1..Len(states) : SameIdentity(states'[i], states[i])]_vars

\* After a resize, late in a session of two rows: the first row has its
\* metadata filled, the second is on range, and the rows are in the order
\* they were seeded in.
C29_Witness ==
    /\ lastKey = "resize"
    /\ phase = "select"
    /\ uiState.terminalHeight # defaultTerminalHeight
    /\ Len(states) = 2
    /\ states[1].name = 1 /\ states[1].metadata = "loaded"
    /\ states[2].name = 2 /\ states[2].selectedOption = "range"

\* The leading non-digit prefix of each specifier, read off by hand.
C30_Prefix(specifier) ==
    CASE specifier = "^4.1.0" -> "^"
      [] specifier = "~4.1.0" -> "~"
      [] specifier = "4.1.0" -> ""
      [] specifier = ">=4.1.0" -> ">="
      [] specifier = "*" -> "*"

\* C30: the text of a row's range and latest slot, and the targetVersion
\* of every choice, is the leading non-digit prefix of the row's specifier
\* followed by the bare range or latest version: ^4.1.0 shows ^4.2.0 and
\* ^5.0.0, and a specifier that starts with a digit shows the bare versions.
C30_PrefixReapplied ==
    /\ \A line \in PackageLines :
          LET state == states[line.row + 1]
          IN  /\ line.rangeVersionText
                    = C30_Prefix(state.currentVersionSpecifier)
                          \o state.rangeVersion
              /\ line.latestVersionText
                    = C30_Prefix(state.currentVersionSpecifier)
                          \o state.latestVersion
              /\ state.currentVersionSpecifier = "^4.1.0" =>
                    /\ line.rangeVersionText = "^4.2.0"
                    /\ line.latestVersionText = "^5.0.0"
              /\ state.currentVersionSpecifier = "4.1.0" =>
                    /\ line.rangeVersionText = "4.2.0"
                    /\ line.latestVersionText = "5.0.0"
    /\ \A j \in 1..Len(selectedChoices) :
          LET choice == selectedChoices[j]
              state == states[choice.row]
          IN  choice.targetVersion
                  = C30_Prefix(state.currentVersionSpecifier)
                        \o (IF choice.upgradeType = "range"
                            THEN state.rangeVersion ELSE state.latestVersion)

\* The run has read two choices: a comparator specifier upgraded within
\* its range and an exact specifier upgraded to latest.
C30_Witness ==
    /\ phase = "prompt"
    /\ Len(selectedChoices) = 2
    /\ selectedChoices[1].upgradeType = "range"
    /\ selectedChoices[1].targetVersion = ">=4.2.0"
    /\ selectedChoices[2].upgradeType = "latest"
    /\ selectedChoices[2].targetVersion = "5.0.0"

\* The packages a session shows: the detected packages of the kinds in view.
ShownPackages == filteredPackages(Packages,
                                  options)

\* The manifests in which a (name, specifier) pair occurs among the packages
\* shown.
ManifestsOfPair(name, specifier) ==
    {ShownPackages[k].packageJsonPath :
        k \in {k \in 1..Len(ShownPackages) :
                  /\ ShownPackages[k].name = name
                  /\ ShownPackages[k].currentVersion = specifier}}

\* The choices the run has read for a row.
ChoicesOfRow(i) ==
    {j \in 1..Len(selectedChoices) : selectedChoices[j].row = i}

\* C31: the rows of a session are deduplicated by (name, original
\* specifier): no two rows share both, every pair shown has its row, and the
\* package.json paths of a row are, without repetition, exactly the manifests
\* in which its pair occurs. Once the run has read the choices of a confirmed
\* session, a row with a selection has one choice for each of its paths, all
\* with the row's upgrade type and one target version, and a row left at
\* none has no choice.
C31_RowsDeduplicatedChoicesPerPath ==
    /\ phase \in {"starting", "select", "selected", "prompt", "prompted"} =>
          /\ \A i, j \in 1..Len(states) :
                (/\ states[i].name = states[j].name
                 /\ states[i].currentVersionSpecifier
                       = states[j].currentVersionSpecifier) => i = j
          /\ \A k \in 1..Len(ShownPackages) : \E i \in 1..Len(states) :
                /\ states[i].name = ShownPackages[k].name
                /\ states[i].currentVersionSpecifier
                      = ShownPackages[k].currentVersion
          /\ \A i \in 1..Len(states) :
                LET paths == states[i].packageJsonPaths
                IN  /\ Range(paths)
                          = ManifestsOfPair(states[i].name,
                                            states[i].currentVersionSpecifier)
                    /\ Cardinality(Range(paths)) = Len(paths)
    /\ phase \in {"prompt", "prompted"} =>
          \A i \in 1..Len(selected) :
             IF selected[i].selectedOption = "none"
             THEN ChoicesOfRow(i) = {}
             ELSE /\ Cardinality(ChoicesOfRow(i))
                        = Len(selected[i].packageJsonPaths)
                  /\ {selectedChoices[j].packageJsonPath :
                         j \in ChoicesOfRow(i)}
                        = Range(selected[i].packageJsonPaths)
                  /\ \A j \in ChoicesOfRow(i) :
                        /\ selectedChoices[j].name = selected[i].name
                        /\ selectedChoices[j].upgradeType
                              = selected[i].selectedOption
                  /\ \A j, k \in ChoicesOfRow(i) :
                        selectedChoices[j].targetVersion
                            = selectedChoices[k].targetVersion

\* The run has read the choices of a session whose only row stands for a
\* pair that occurs in both manifests: two choices, one per manifest, both
\* to the same target.
C31_Witness ==
    /\ phase = "prompt"
    /\ Len(selected) = 1
    /\ Len(selected[1].packageJsonPaths) = 2
    /\ selected[1].selectedOption = "latest"
    /\ Len(selectedChoices) = 2
    /\ selectedChoices[1].packageJsonPath # selectedChoices[2].packageJsonPath
    /\ selectedChoices[1].targetVersion = selectedChoices[2].targetVersion

\* C32: while a selection session has not resolved, stdin stays in raw mode
\* and flowing: no key of the session is handled by the handler of a
\* confirmation prompt answered before it.
C32_SessionKeepsRawMode ==
    phase = "select" => rawMode /\ flowing

\* C33: a resize that changes the capacity leaves the scroll offset such
\* that the cursor row's visual index lies in
\* [scrollOffset, scrollOffset + capacity), in a flat and in a sectioned list.
C33_CursorVisibleAfterResize ==
    [][(/\ lastKey' = "resize"
        /\ uiState'.maxVisibleItems # uiState.maxVisibleItems)
          => (/\ uiState'.scrollOffset <= CursorVisualIndex'
              /\ CursorVisualIndex'
                    < uiState'.scrollOffset + uiState'.maxVisibleItems)]_vars

\* C34: once a selection session has resolved, no step changes the
\* StateManager's UI state or the rows the session resolved over: a metadata
\* fetch that settles after the resolution neither clears the loading flag
\* nor repaints.
C34_ResolvedSessionIsQuiet ==
    [][(resolvedBy # "pending" /\ resolvedBy' # "pending")
          => (uiState' = uiState /\ states' = states)]_vars

\* C35: when Down moves the cursor, without wrapping, to the row just below
\* the visible window and that row is not the first package of a section,
\* the new scroll offset is visualIndex - capacity + 1: the window scrolls by
\* one row and the cursor row is its last line.
C35_DownPinsAtBottom ==
    [][(/\ lastKey' = "down"
        /\ phase = "select"
        /\ ~uiState.showInfoModal
        /\ CursorVisualIndex' > CursorVisualIndex
        /\ CursorVisualIndex' = uiState.scrollOffset + uiState.maxVisibleItems
        /\ TargetVisualIndex(uiState.renderableItems, CursorVisualIndex')
              = CursorVisualIndex')
          => uiState'.scrollOffset
                = CursorVisualIndex' - uiState.maxVisibleItems + 1]_vars

\* C36: Enter does not confirm while the detail modal is open: a session
\* that resolved as confirmed was confirmed from the list view, so its modal
\* is closed.
C36_ConfirmedFromListOnly ==
    (lastKey = "return" /\ resolvedBy = "confirm") => ~uiState.showInfoModal

\* The entries of the root manifest once the choices of the resolved rows
\* are written: the prefixed target of a selected row, the specifier of a
\* row left at none.
C37_Rewritten(sts) ==
    {[packageJsonPath |-> RootManifest, type |-> "dependencies",
      name |-> sts[i].name,
      version |->
         IF sts[i].selectedOption = "none"
         THEN sts[i].currentVersionSpecifier
         ELSE applyVersionPrefix(sts[i].currentVersionSpecifier,
                                 IF sts[i].selectedOption = "range"
                                 THEN sts[i].rangeVersion
                                 ELSE sts[i].latestVersion)] :
        i \in 1..Len(sts)}

EntryAt(files, e) ==
    {d \in files : /\ d.packageJsonPath = e.packageJsonPath
                   /\ d.type = e.type
                   /\ d.name = e.name}

\* C38: the step that applies the choices rewrites only entries a choice
\* stands for: every entry it writes is, in the choice's manifest, the entry
\* of the choice's name whose specifier was the choice's original specifier,
\* and it now holds the choice's target; no entry of another dependency kind
\* is written or created, and every choice has such an entry written.
C38_WritesEntryOfRowKind ==
    [][(phase = "prompted" /\ shouldProceed = "true") =>
          /\ \A e \in manifests' \ manifests :
                \E j \in 1..Len(selectedChoices) :
                   LET choice == selectedChoices[j]
                   IN  /\ e.packageJsonPath = choice.packageJsonPath
                       /\ e.name = choice.name
                       /\ e.version = choice.targetVersion
                       /\ \E d \in EntryAt(manifests, e) :
                             d.version = choice.currentVersionSpecifier
          /\ \A j \in 1..Len(selectedChoices) :
                LET choice == selectedChoices[j]
                IN  \E d \in manifests :
                       /\ d.packageJsonPath = choice.packageJsonPath
                       /\ d.name = choice.name
                       /\ d.version = choice.currentVersionSpecifier
                       /\ \A e \in EntryAt(manifests', d) :
                             e.version = choice.targetVersion]_vars

\* The events whose handler sets isInitialRender before it paints: the start
\* of a session (by the run or after go-back), a resize signal, the opening
\* and the closing of the modal, the settling of a metadata fetch
\* (setModalLoading).
ClearEvents == {"start", "run", "resize", "i", "escape"} \cup FetchEvents

C40_RangeTargetSameMajorAndGreater ==
    \A i \in 1..Len(states) :
        states[i].hasRangeUpdate =>
            LET current == coerce(states[i].currentVersionSpecifier)[1]
                target == coerce(states[i].rangeVersion)[1]
            IN  target.major = current.major /\ gt(target, current)

====
